---- MODULE Spec2Model ----
(***************************************************************************)
(* Water-chemistry evaluation, recommendations, service quality score,     *)
(* weekly assessment, trends, maintenance routes and access middleware of  *)
(* the VegasPoolCoaches backend.                                           *)
(*                                                                         *)
(* Units: pH and chlorine are held in hundredths (7.2 is 720, 1.0 ppm is   *)
(* 100), alkalinity in ppm, instants and durations in milliseconds.        *)
(***************************************************************************)
EXTENDS Integers, Sequences, FiniteSets, TLC

VARIABLES
    waterChemistry,   \* pool.waterChemistry as stored: the array of readings
    now,              \* the server clock (Date.now()), in ms
    doc,              \* waterChemistry of the document a handler has loaded
    tasks,            \* maintenance log: tasks[i] is the status of task i
    issues,           \* maintenance log: issues[i] is the severity of issue i
    customerFeedback, \* maintenance log: customerFeedback, rating optional
    maintenanceStatus, \* maintenance log: status
    technician,       \* maintenance log: technician, a user id
    owner,            \* pool.owner, a user id
    equipment,        \* pool.equipment: equipment[i] is the status of item i
    isActive,         \* pool.isActive
    subscriptions,    \* the PremiumSubscription documents of the client
    account,          \* the User document of the client, as stored
    inflight,         \* requests between two awaits: inflight[s] is what the
                      \* handler running in slot s has loaded so far
    ebookFeature,     \* the Ebook entry of subscription.features, as stored
    ebooks,           \* the CustomEbook documents of the client
    metrics,          \* affiliate.performanceMetrics, as stored
    referrals,        \* ReferralTracking documents: referrals[i] is the status
    request,          \* req.body of the request being answered
    response          \* the response of the request being answered

vars ==
    <<waterChemistry, now, doc, tasks, issues, customerFeedback, maintenanceStatus,
      technician, owner, equipment, isActive, subscriptions, account, inflight,
      ebookFeature, ebooks, metrics, referrals, request, response>>

poolVars == <<waterChemistry, now, doc>>
logVars == <<tasks, issues, customerFeedback>>
serviceVars == <<account, inflight, ebookFeature, ebooks, metrics, referrals>>
recordVars ==
    <<maintenanceStatus, technician, owner, equipment, isActive, subscriptions,
      serviceVars>>

(***************************************************************************)
(* Bounds of the model.                                                    *)
(***************************************************************************)
MaxReadings == 2
MaxSkew == 1
MaxSymptoms == 2
MaxInflight == 2
MaxTasks == 3
MaxIssues == 4

SevenDays == 7 * 24 * 60 * 60 * 1000

NoRequest == [kind |-> "none"]
NoResponse == [op |-> "none"]

RECURSIVE SeqsUpTo(_, _)
SeqsUpTo(S, n) ==
    IF n = 0 THEN {<<>>}
    ELSE LET shorter == SeqsUpTo(S, n - 1)
         IN  shorter \cup {Append(s, x) : s \in {t \in shorter : Len(t) = n - 1}, x \in S}

(***************************************************************************)
(* Request bodies accepted by waterChemistrySchema: pH in [0, 14], the     *)
(* concentrations >= 0.  The values sit on and next to every band edge.    *)
(***************************************************************************)
PHValues == {0, 700, 719, 720, 721, 740, 759, 760, 761, 780, 1400}
ChlorineValues == {0, 50, 99, 100, 200, 300, 301}
AlkalinityValues == {0, 79, 80, 100, 120, 121}

ReadingBodies ==
    [pH : PHValues, chlorine : ChlorineValues, alkalinity : AlkalinityValues]

\* The bodies posted to a pool with a history: in band (centre and both
\* edges) and one parameter just out of band on either side.
HistoryBodies ==
    { [pH |-> 740, chlorine |-> 200, alkalinity |-> 100],
      [pH |-> 720, chlorine |-> 100, alkalinity |-> 80],
      [pH |-> 760, chlorine |-> 300, alkalinity |-> 120],
      [pH |-> 719, chlorine |-> 200, alkalinity |-> 100],
      [pH |-> 761, chlorine |-> 200, alkalinity |-> 100],
      [pH |-> 740, chlorine |-> 99, alkalinity |-> 100],
      [pH |-> 740, chlorine |-> 301, alkalinity |-> 100],
      [pH |-> 740, chlorine |-> 200, alkalinity |-> 79],
      [pH |-> 740, chlorine |-> 200, alkalinity |-> 121] }

Stamp(body, t) ==
    [pH |-> body.pH, chlorine |-> body.chlorine,
     alkalinity |-> body.alkalinity, testedAt |-> t]

(***************************************************************************)
(* Pool.js: latestWaterChemistry, needsAttention, getRecommendations.      *)
(***************************************************************************)
\* Array.prototype.sort((a, b) => b.testedAt - a.testedAt): stable, newest
\* first; readings of equal testedAt keep their order.
RECURSIVE InsertByTestedAtDesc(_, _)
InsertByTestedAtDesc(sorted, r) ==
    IF Len(sorted) = 0 THEN <<r>>
    ELSE IF Head(sorted).testedAt >= r.testedAt
         THEN <<Head(sorted)>> \o InsertByTestedAtDesc(Tail(sorted), r)
         ELSE <<r>> \o sorted

RECURSIVE SortByTestedAtDesc(_)
SortByTestedAtDesc(wc) ==
    IF Len(wc) = 0 THEN <<>>
    ELSE InsertByTestedAtDesc(SortByTestedAtDesc(SubSeq(wc, 1, Len(wc) - 1)),
                              wc[Len(wc)])

\* The virtual getter: null is <<>>, a reading r is <<r>>.
latestWaterChemistry(wc) ==
    IF Len(wc) > 0 THEN <<SortByTestedAtDesc(wc)[1]>> ELSE <<>>

\* recentReading with < for <=.
needsAttention_StrictRecent(wc, t) ==
    LET latest == latestWaterChemistry(wc) IN
    IF Len(latest) = 0 THEN TRUE
    ELSE LET phOk == latest[1].pH >= 720 /\ latest[1].pH <= 760
             chlorineOk == latest[1].chlorine >= 100 /\ latest[1].chlorine <= 300
             alkalinityOk == latest[1].alkalinity >= 80 /\ latest[1].alkalinity <= 120
             recentReading == t - latest[1].testedAt < SevenDays
         IN  ~phOk \/ ~chlorineOk \/ ~alkalinityOk \/ ~recentReading

needsAttention(wc, t) ==
    LET latest == latestWaterChemistry(wc) IN
    IF Len(latest) = 0 THEN TRUE
    ELSE LET phOk == latest[1].pH >= 720 /\ latest[1].pH <= 760
             chlorineOk == latest[1].chlorine >= 100 /\ latest[1].chlorine <= 300
             alkalinityOk == latest[1].alkalinity >= 80 /\ latest[1].alkalinity <= 120
             recentReading == t - latest[1].testedAt <= SevenDays
         IN  ~phOk \/ ~chlorineOk \/ ~alkalinityOk \/ ~recentReading

TestNeeded ==
    [type |-> "urgent", message |-> "Water chemistry test needed immediately"]
PhLowRec ==
    [type |-> "chemical",
     message |-> "pH is too low. Add sodium carbonate (soda ash) to raise pH.",
     priority |-> "high"]
PhHighRec ==
    [type |-> "chemical",
     message |-> "pH is too high. Add muriatic acid or sodium bisulfate to lower pH.",
     priority |-> "high"]
ChlorineLowRec ==
    [type |-> "chemical",
     message |-> "Chlorine level is too low. Add chlorine shock or liquid chlorine.",
     priority |-> "urgent"]
ChlorineHighRec ==
    [type |-> "safety",
     message |-> "Chlorine level is too high. Allow levels to decrease before swimming.",
     priority |-> "medium"]
AlkalinityLowRec ==
    [type |-> "chemical",
     message |-> "Total alkalinity is low. Add sodium bicarbonate to increase alkalinity.",
     priority |-> "medium"]
AlkalinityHighRec ==
    [type |-> "chemical",
     message |-> "Total alkalinity is high. Add muriatic acid to decrease alkalinity.",
     priority |-> "medium"]

phRecommendations(latest) ==
    IF latest.pH < 720 THEN <<PhLowRec>>
    ELSE IF latest.pH > 760 THEN <<PhHighRec>>
    ELSE <<>>

\* High chlorine reported as a chemical recommendation.
chlorineRecommendations_HighIsChemical(latest) ==
    IF latest.chlorine < 100 THEN <<ChlorineLowRec>>
    ELSE IF latest.chlorine > 300
         THEN <<[type |-> "chemical", message |-> ChlorineHighRec.message,
                 priority |-> "medium"]>>
         ELSE <<>>

chlorineRecommendations(latest) ==
    IF latest.chlorine < 100 THEN <<ChlorineLowRec>>
    ELSE IF latest.chlorine > 300 THEN <<ChlorineHighRec>>
    ELSE <<>>

\* The upper edge of the alkalinity band taken as 150.
alkalinityRecommendations_Wide(latest) ==
    IF latest.alkalinity < 80 THEN <<AlkalinityLowRec>>
    ELSE IF latest.alkalinity > 150 THEN <<AlkalinityHighRec>>
    ELSE <<>>

alkalinityRecommendations(latest) ==
    IF latest.alkalinity < 80 THEN <<AlkalinityLowRec>>
    ELSE IF latest.alkalinity > 120 THEN <<AlkalinityHighRec>>
    ELSE <<>>

\* The chlorine check moved ahead of the pH check.
getRecommendations_ChlorineFirst(wc) ==
    LET latest == latestWaterChemistry(wc) IN
    IF Len(latest) = 0 THEN <<TestNeeded>>
    ELSE chlorineRecommendations(latest[1])
         \o phRecommendations(latest[1])
         \o alkalinityRecommendations(latest[1])

getRecommendations(wc) ==
    LET latest == latestWaterChemistry(wc) IN
    IF Len(latest) = 0 THEN <<TestNeeded>>
    ELSE phRecommendations(latest[1])
         \o chlorineRecommendations(latest[1])
         \o alkalinityRecommendations(latest[1])

(***************************************************************************)
(* routes/pools.js: the handlers that read and extend a pool's readings.   *)
(***************************************************************************)
\* GET /api/pools/:poolId/recommendations.  Both methods sort the loaded
\* document's array in place; the document is not saved.
GetPoolRecommendations ==
    LET loaded == waterChemistry
        afterRecommendations == SortByTestedAtDesc(loaded)
        afterNeedsAttention == SortByTestedAtDesc(afterRecommendations)
    IN  /\ response = NoResponse
        /\ doc' = SortByTestedAtDesc(afterNeedsAttention)
        /\ response' = [op |-> "getRecommendations", status |-> 200,
                        recommendations |-> getRecommendations(loaded),
                        needsAttention |-> needsAttention(afterRecommendations, now),
                        latestReading |-> latestWaterChemistry(afterNeedsAttention)]
        /\ UNCHANGED <<recordVars, waterChemistry, now, logVars, request>>

\* POST /api/pools/:poolId/water-chemistry with a valid body.
PostWaterChemistry(value) ==
    /\ response = NoResponse
    /\ Len(waterChemistry) < MaxReadings
    /\ waterChemistry' = Append(waterChemistry, Stamp(value, now))
    /\ doc' = SortByTestedAtDesc(waterChemistry')
    /\ response' = [op |-> "postWaterChemistry", status |-> 201,
                    waterChemistry |-> Stamp(value, now),
                    recommendations |-> getRecommendations(waterChemistry')]
    /\ request' = [kind |-> "waterChemistry", body |-> value]
    /\ UNCHANGED <<recordVars, now, logVars>>

\* res.json(...): the response leaves and the loaded document is dropped.
Deliver ==
    /\ response # NoResponse
    /\ response' = NoResponse
    /\ request' = NoRequest
    /\ doc' = <<>>
    /\ UNCHANGED <<recordVars, waterChemistry, now, logVars>>

\* The clock advances between requests.
Tick(d) ==
    /\ response = NoResponse
    /\ now + d <= SevenDays + MaxSkew
    /\ (now + d) % SevenDays <= MaxSkew
    /\ now' = now + d
    /\ UNCHANGED <<recordVars, waterChemistry, doc, logVars, request, response>>

LogUntouched ==
    /\ tasks = <<>>
    /\ issues = <<>>
    /\ customerFeedback = [comments |-> ""]

\* A slot in which no handler is running.
Idle == [pc |-> "idle"]

\* The documents of the account, premium and affiliate routes before any of
\* these routes has run: a user who never failed a login and holds no reset
\* token, no request in flight, a basic-tier Ebook feature not yet used, no
\* ebook, an affiliate without referrals.
ServicesUntouched ==
    /\ account = [loginAttempts |-> 0, lockUntil |-> <<>>, password |-> "p0",
                  passwordResetToken |-> <<>>, passwordResetExpires |-> <<>>]
    /\ inflight = [s \in 1..MaxInflight |-> Idle]
    /\ ebookFeature = [usageLimit |-> 1, usageCount |-> 0]
    /\ ebooks = <<>>
    /\ metrics = [totalReferrals |-> 0, successfulReferrals |-> 0]
    /\ referrals = <<>>

\* The documents the pool and maintenance handlers above do not write: a
\* scheduled visit of technician "u2" to the active pool of owner "u1", and
\* a client without subscription.
RecordsUntouched ==
    /\ maintenanceStatus = "scheduled"
    /\ technician = "u2"
    /\ owner = "u1"
    /\ equipment = <<>>
    /\ isActive = TRUE
    /\ subscriptions = <<>>
    /\ ServicesUntouched

InitPool ==
    /\ waterChemistry = <<>>
    /\ now = 0
    /\ doc = <<>>
    /\ request = NoRequest
    /\ response = NoResponse
    /\ LogUntouched
    /\ RecordsUntouched

NextPool ==
    \/ GetPoolRecommendations
    \/ /\ response = NoResponse
       /\ \E value \in HistoryBodies : PostWaterChemistry(value)
    \/ /\ response = NoResponse
       /\ \E d \in {1, SevenDays} : Tick(d)
    \/ Deliver

SpecPool == InitPool /\ [][NextPool]_vars

(***************************************************************************)
(* Consulting routes: the rule-based analysis of POST /ai-analysis.        *)
(***************************************************************************)
\* Symptoms are strings, held as sequences of characters.
UpperCase ==
    <<"A", "B", "C", "D", "E", "F", "G", "H", "I", "J", "K", "L", "M",
      "N", "O", "P", "Q", "R", "S", "T", "U", "V", "W", "X", "Y", "Z">>
LowerCase ==
    <<"a", "b", "c", "d", "e", "f", "g", "h", "i", "j", "k", "l", "m",
      "n", "o", "p", "q", "r", "s", "t", "u", "v", "w", "x", "y", "z">>

toLowerCase(str) ==
    [i \in DOMAIN str |->
        IF \E k \in DOMAIN UpperCase : UpperCase[k] = str[i]
        THEN LowerCase[CHOOSE k \in DOMAIN UpperCase : UpperCase[k] = str[i]]
        ELSE str[i]]

includes(str, pattern) ==
    \E i \in 1..(Len(str) - Len(pattern) + 1) :
        SubSeq(str, i, i + Len(pattern) - 1) = pattern

Algae == <<"a", "l", "g", "a", "e">>
Cloudy == <<"c", "l", "o", "u", "d", "y">>
Smell == <<"s", "m", "e", "l", "l">>

\* The symptoms a request may report: a keyword in another case, inside a
\* longer word, two keywords in one symptom, and a near miss.
SymptomValues ==
    { <<"A", "l", "g", "a", "e">>,
      <<"C", "L", "O", "U", "D", "Y">>,
      <<"s", "m", "e", "l", "l", "y">>,
      <<"c", "l", "o", "u", "d", "y", " ", "a", "l", "g", "a", "e">>,
      <<"a", "l", "g", "a">> }

SymptomLists == SeqsUpTo(SymptomValues, MaxSymptoms)

\* aiAnalysisSchema: waterChemistry is optional and so is each of its fields.
AnalysisFields == {"pH", "chlorine", "alkalinity"}

AnalysisChemistry ==
    { [f \in D |-> r[f]] :
        r \in [pH : PHValues, chlorine : {99, 100, 301},
               alkalinity : {79, 120, 121}],
        D \in SUBSET AnalysisFields }

AnalysisChemistryOpts == {<<>>} \cup {<<body>> : body \in AnalysisChemistry}

\* A comparison with undefined is false.
Below(wc, field, limit) == field \in DOMAIN wc /\ wc[field] < limit
\* > read as >=.
Above_Inclusive(wc, field, limit) == field \in DOMAIN wc /\ wc[field] >= limit

Above(wc, field, limit) == field \in DOMAIN wc /\ wc[field] > limit

PhLowIssue == "pH is too low (acidic)"
PhHighIssue == "pH is too high (basic)"
ChlorineLowIssue == "Free chlorine is too low"
ChlorineHighIssue == "Free chlorine is too high"
AlkalinityLowIssue == "Total alkalinity is low"
AlkalinityHighIssue == "Total alkalinity is high"

PhLowAction == "Add sodium carbonate (soda ash) to raise pH to 7.2-7.6 range"
PhHighAction == "Add muriatic acid or sodium bisulfate to lower pH to 7.2-7.6 range"
ChlorineLowAction == "URGENT: Add chlorine shock or liquid chlorine to reach 1.0-3.0 ppm"
ChlorineHighAction == "Allow chlorine to naturally decrease before swimming, or add neutralizer"
AlkalinityLowAction == "Add sodium bicarbonate to increase alkalinity to 80-120 ppm"
AlkalinityHighAction == "Add muriatic acid carefully to decrease alkalinity"

AlgaeAction == "Shock treatment with chlorine, brush walls, and run filtration 24/7 until clear"
CloudyAction == "Check and clean filter, test water chemistry, consider clarifier treatment"
SmellAction == "Test chlorine levels, shock if needed, check pH balance"

PhCheck == "pH level is within optimal range (7.2-7.6)"
ChlorineCheck == "Free chlorine level is adequate (1.0-3.0 ppm)"
AlkalinityCheck == "Total alkalinity is within range (80-120 ppm)"

\* One parameter's branch: what it adds to issues, recommendations and the
\* check marks of the analysis text.
analyse(wc, field, low, high, lowIssue, lowAction, highIssue, highAction, check) ==
    IF Below(wc, field, low)
    THEN [issues |-> <<lowIssue>>, recommendations |-> <<lowAction>>, checks |-> <<>>]
    ELSE IF Above(wc, field, high)
    THEN [issues |-> <<highIssue>>, recommendations |-> <<highAction>>, checks |-> <<>>]
    ELSE [issues |-> <<>>, recommendations |-> <<>>, checks |-> <<check>>]

\* The short-circuit of getRecommendations copied into the analysis.
chemistryAnalysis_TestNeeded(waterChemistryOpt) ==
    IF Len(waterChemistryOpt) = 0
    THEN [issues |-> <<>>, recommendations |-> <<TestNeeded.message>>,
          checks |-> <<>>]
    ELSE [issues |-> <<>>, recommendations |-> <<>>, checks |-> <<>>]

chemistryAnalysis(waterChemistryOpt) ==
    IF Len(waterChemistryOpt) = 0
    THEN [issues |-> <<>>, recommendations |-> <<>>, checks |-> <<>>]
    ELSE LET wc == waterChemistryOpt[1]
             ph == analyse(wc, "pH", 720, 760, PhLowIssue, PhLowAction,
                           PhHighIssue, PhHighAction, PhCheck)
             cl == analyse(wc, "chlorine", 100, 300, ChlorineLowIssue,
                           ChlorineLowAction, ChlorineHighIssue,
                           ChlorineHighAction, ChlorineCheck)
             alk == analyse(wc, "alkalinity", 80, 120, AlkalinityLowIssue,
                            AlkalinityLowAction, AlkalinityHighIssue,
                            AlkalinityHighAction, AlkalinityCheck)
         IN  [issues |-> ph.issues \o cl.issues \o alk.issues,
              recommendations |->
                  ph.recommendations \o cl.recommendations \o alk.recommendations,
              checks |-> ph.checks \o cl.checks \o alk.checks]

\* The body of symptoms.forEach for one symptom.
symptomRecommendations(symptom) ==
    (IF includes(toLowerCase(symptom), Algae) THEN <<AlgaeAction>> ELSE <<>>)
    \o (IF includes(toLowerCase(symptom), Cloudy) THEN <<CloudyAction>> ELSE <<>>)
    \o (IF includes(toLowerCase(symptom), Smell) THEN <<SmellAction>> ELSE <<>>)

RECURSIVE symptomsAnalysis(_)
symptomsAnalysis(symptoms) ==
    IF Len(symptoms) = 0 THEN <<>>
    ELSE symptomRecommendations(Head(symptoms)) \o symptomsAnalysis(Tail(symptoms))

\* The symptoms handled before the chemistry.
generateRuleBasedAnalysis_SymptomsFirst(waterChemistryOpt, symptoms) ==
    LET chemistry == chemistryAnalysis(waterChemistryOpt)
    IN  [checks |-> chemistry.checks,
         reported |-> symptoms,
         issues |-> chemistry.issues,
         recommendations |->
             symptomsAnalysis(symptoms) \o chemistry.recommendations]

\* The returned text holds, in this order, the check marks, the reported
\* symptoms, the issues found and the numbered recommended actions.
generateRuleBasedAnalysis(waterChemistryOpt, symptoms) ==
    LET chemistry == chemistryAnalysis(waterChemistryOpt)
    IN  [checks |-> chemistry.checks,
         reported |-> symptoms,
         issues |-> chemistry.issues,
         recommendations |->
             chemistry.recommendations \o symptomsAnalysis(symptoms)]

\* POST /api/consulting/ai-analysis without an OpenAI key: the rule-based
\* fallback.  A body without symptoms takes the default [].
PostAiAnalysis(waterChemistryOpt, symptoms) ==
    /\ response = NoResponse
    /\ request' = [kind |-> "aiAnalysis", waterChemistry |-> waterChemistryOpt,
                   symptoms |-> symptoms]
    /\ response' = [op |-> "aiAnalysis", status |-> 200, source |-> "rule-based",
                    analysis |-> generateRuleBasedAnalysis(waterChemistryOpt, symptoms)]
    /\ UNCHANGED <<recordVars, poolVars, logVars>>

\* A pool holding no reading or one reading taken at instant 0.
InitOneReading(bodies) ==
    /\ waterChemistry \in {<<>>} \cup {<<Stamp(body, 0)>> : body \in bodies}
    /\ now = 0
    /\ doc = <<>>
    /\ request = NoRequest
    /\ response = NoResponse
    /\ LogUntouched
    /\ RecordsUntouched

InitRecs == InitOneReading(ReadingBodies)

NextRecs ==
    \/ GetPoolRecommendations
    \/ Deliver

SpecRecs == InitRecs /\ [][NextRecs]_vars

PostAnyAiAnalysis ==
    /\ response = NoResponse
    /\ \E wc \in AnalysisChemistryOpts, symptoms \in SymptomLists :
           PostAiAnalysis(wc, symptoms)

\* The analysis alone: it reads no pool.
InitAnalysis == InitOneReading({})

NextAnalysis ==
    \/ PostAnyAiAnalysis
    \/ Deliver

SpecAnalysis == InitAnalysis /\ [][NextAnalysis]_vars

\* The two places that band a pH: a pool whose one reading varies in pH, and
\* the analysis of such readings.
PhBodies == [pH : PHValues, chlorine : {200}, alkalinity : {100}]

InitBands == InitOneReading(PhBodies)

NextBands ==
    \/ GetPoolRecommendations
    \/ /\ response = NoResponse
       /\ \E wc \in {<<>>} \cup {<<body>> : body \in PhBodies},
              symptoms \in SymptomLists :
                PostAiAnalysis(wc, symptoms)
    \/ Deliver

SpecBands == InitBands /\ [][NextBands]_vars

(***************************************************************************)
(* MaintenanceLog.js: calculateQualityScore, and the maintenance routes    *)
(* that answer with it.                                                    *)
(***************************************************************************)
TaskStatuses == {"pending", "in_progress", "completed", "skipped", "failed"}
Severities == {"minor", "moderate", "major", "critical"}
Ratings == 1..5

Max(a, b) == IF a >= b THEN a ELSE b
Min(a, b) == IF a <= b THEN a ELSE b

\* The score clamped after every adjustment.
calculateQualityScore_ClampEach(ts, is, feedback) ==
    LET incompleteTasks ==
            Len(SelectSeq(ts, LAMBDA task : task = "failed" \/ task = "skipped"))
        criticalIssues == Len(SelectSeq(is, LAMBDA issue : issue = "critical"))
        majorIssues == Len(SelectSeq(is, LAMBDA issue : issue = "major"))
        afterTasks == Max(0, Min(100, 100 - incompleteTasks * 10))
        afterIssues ==
            Max(0, Min(100, afterTasks - (criticalIssues * 20 + majorIssues * 10)))
        afterRating ==
            IF "rating" \in DOMAIN feedback /\ feedback.rating # 0
            THEN afterIssues + (feedback.rating - 3) * 5
            ELSE afterIssues
    IN  Max(0, Min(100, afterRating))

\* The floor at 0 left out.
calculateQualityScore_NoFloor(ts, is, feedback) ==
    LET incompleteTasks ==
            Len(SelectSeq(ts, LAMBDA task : task = "failed" \/ task = "skipped"))
        criticalIssues == Len(SelectSeq(is, LAMBDA issue : issue = "critical"))
        majorIssues == Len(SelectSeq(is, LAMBDA issue : issue = "major"))
        afterTasks == 100 - incompleteTasks * 10
        afterIssues == afterTasks - (criticalIssues * 20 + majorIssues * 10)
        afterRating ==
            IF "rating" \in DOMAIN feedback /\ feedback.rating # 0
            THEN afterIssues + (feedback.rating - 3) * 5
            ELSE afterIssues
    IN  Min(100, afterRating)

\* Every task that is not completed counted as incomplete.
calculateQualityScore_NotCompleted(ts, is, feedback) ==
    LET incompleteTasks == Len(SelectSeq(ts, LAMBDA task : task # "completed"))
        criticalIssues == Len(SelectSeq(is, LAMBDA issue : issue = "critical"))
        majorIssues == Len(SelectSeq(is, LAMBDA issue : issue = "major"))
        afterTasks == 100 - incompleteTasks * 10
        afterIssues == afterTasks - (criticalIssues * 20 + majorIssues * 10)
        afterRating ==
            IF "rating" \in DOMAIN feedback /\ feedback.rating # 0
            THEN afterIssues + (feedback.rating - 3) * 5
            ELSE afterIssues
    IN  Max(0, Min(100, afterRating))

calculateQualityScore(ts, is, feedback) ==
    LET incompleteTasks ==
            Len(SelectSeq(ts, LAMBDA task : task = "failed" \/ task = "skipped"))
        criticalIssues == Len(SelectSeq(is, LAMBDA issue : issue = "critical"))
        majorIssues == Len(SelectSeq(is, LAMBDA issue : issue = "major"))
        afterTasks == 100 - incompleteTasks * 10
        afterIssues == afterTasks - (criticalIssues * 20 + majorIssues * 10)
        afterRating ==
            IF "rating" \in DOMAIN feedback /\ feedback.rating # 0
            THEN afterIssues + (feedback.rating - 3) * 5
            ELSE afterIssues
    IN  Max(0, Min(100, afterRating))

QualityResponse(op, ts, is, feedback) ==
    [op |-> op, status |-> 200,
     qualityScore |-> calculateQualityScore(ts, is, feedback)]

\* GET /api/maintenance/:maintenanceId
GetMaintenance ==
    /\ response = NoResponse
    /\ response' = QualityResponse("getMaintenance", tasks, issues, customerFeedback)
    /\ UNCHANGED <<recordVars, poolVars, logVars, request>>

\* PUT /api/maintenance/:maintenanceId with body {tasks}: $set replaces the
\* array.  The bodies add one task to the stored list.
PutTasks(status) ==
    /\ response = NoResponse
    /\ Len(tasks) < MaxTasks
    /\ tasks' = Append(tasks, status)
    /\ request' = [kind |-> "putMaintenance", tasks |-> tasks']
    /\ response' = QualityResponse("putMaintenance", tasks', issues, customerFeedback)
    /\ UNCHANGED <<recordVars, poolVars, issues, customerFeedback>>

SeverityRank(severity) ==
    CASE severity = "minor" -> 1
      [] severity = "moderate" -> 2
      [] severity = "major" -> 3
      [] severity = "critical" -> 4

\* PUT with body {issues}.  The bodies add one issue to the stored list and
\* list the issues most severe first: one list for each multiset of
\* severities.
PutIssues(severity) ==
    /\ response = NoResponse
    /\ Len(issues) < MaxIssues
    /\ Len(issues) > 0 => SeverityRank(severity) <= SeverityRank(issues[Len(issues)])
    /\ issues' = Append(issues, severity)
    /\ request' = [kind |-> "putMaintenance", issues |-> issues']
    /\ response' = QualityResponse("putMaintenance", tasks, issues', customerFeedback)
    /\ UNCHANGED <<recordVars, poolVars, tasks, customerFeedback>>

\* PUT with body {customerFeedback: {rating}}.
PutFeedback(rating) ==
    /\ response = NoResponse
    /\ customerFeedback' = [comments |-> "", rating |-> rating]
    /\ request' = [kind |-> "putMaintenance", customerFeedback |-> customerFeedback']
    /\ response' = QualityResponse("putMaintenance", tasks, issues, customerFeedback')
    /\ UNCHANGED <<recordVars, poolVars, tasks, issues>>

\* The log as POST /api/maintenance creates it with the default tasks [].
InitQuality ==
    /\ waterChemistry = <<>>
    /\ now = 0
    /\ doc = <<>>
    /\ request = NoRequest
    /\ response = NoResponse
    /\ LogUntouched
    /\ RecordsUntouched

NextQuality ==
    \/ GetMaintenance
    \/ /\ response = NoResponse
       /\ \E status \in TaskStatuses : PutTasks(status)
    \/ /\ response = NoResponse
       /\ \E severity \in Severities : PutIssues(severity)
    \/ /\ response = NoResponse
       /\ \E rating \in Ratings : PutFeedback(rating)
    \/ Deliver

SpecQuality == InitQuality /\ [][NextQuality]_vars

(***************************************************************************)
(* Premium routes: the weekly assessment and its scores.                   *)
(***************************************************************************)
MaxEquipment == 4

\* A score that need not be whole is held as the fraction num / den.
Ratio(num, den) == [num |-> num, den |-> den]

\* waterSample.testResults as weeklyAssessmentSchema accepts it: every
\* field is optional.  Each parameter sits on or next to a band edge.
WeeklyTestResults ==
    { [f \in D |-> r[f]] :
        r \in [pH : {719, 720, 760, 761}, chlorine : {99, 100, 300, 301},
               alkalinity : {79, 80, 120, 121}],
        D \in SUBSET AnalysisFields }

\* The deduction of alkalinity taken as 20.
calculateChemistryScore_Alkalinity20(testResultsOpt) ==
    IF Len(testResultsOpt) = 0 THEN 50
    ELSE LET testResults == testResultsOpt[1]
             afterPh ==
                 IF Below(testResults, "pH", 720) \/ Above(testResults, "pH", 760)
                 THEN 100 - 20 ELSE 100
             afterChlorine ==
                 IF Below(testResults, "chlorine", 100)
                    \/ Above(testResults, "chlorine", 300)
                 THEN afterPh - 20 ELSE afterPh
             afterAlkalinity ==
                 IF Below(testResults, "alkalinity", 80)
                    \/ Above(testResults, "alkalinity", 120)
                 THEN afterChlorine - 20 ELSE afterChlorine
         IN  Max(0, afterAlkalinity)

\* if (!testResults) return 50; a missing parameter compares false and takes
\* nothing from the score.
calculateChemistryScore(testResultsOpt) ==
    IF Len(testResultsOpt) = 0 THEN 50
    ELSE LET testResults == testResultsOpt[1]
             afterPh ==
                 IF Below(testResults, "pH", 720) \/ Above(testResults, "pH", 760)
                 THEN 100 - 20 ELSE 100
             afterChlorine ==
                 IF Below(testResults, "chlorine", 100)
                    \/ Above(testResults, "chlorine", 300)
                 THEN afterPh - 20 ELSE afterPh
             afterAlkalinity ==
                 IF Below(testResults, "alkalinity", 80)
                    \/ Above(testResults, "alkalinity", 120)
                 THEN afterChlorine - 15 ELSE afterChlorine
         IN  Max(0, afterAlkalinity)

calculateClarityScore(waterClarityOpt) ==
    IF Len(waterClarityOpt) = 0 THEN 70
    ELSE CASE waterClarityOpt[1] = "crystal_clear" -> 100
           [] waterClarityOpt[1] = "slightly_cloudy" -> 80
           [] waterClarityOpt[1] = "cloudy" -> 60
           [] waterClarityOpt[1] = "very_cloudy" -> 40
           [] waterClarityOpt[1] = "murky" -> 20
           [] OTHER -> 70

\* (workingEquipment / totalEquipment) * 100
calculateEquipmentScore(equipmentStatusOpt) ==
    IF Len(equipmentStatusOpt) = 0 \/ Len(equipmentStatusOpt[1]) = 0
    THEN Ratio(70, 1)
    ELSE LET equipmentStatus == equipmentStatusOpt[1]
             workingEquipment ==
                 Cardinality({i \in DOMAIN equipmentStatus :
                                  equipmentStatus[i] = "working"})
             totalEquipment == Len(equipmentStatus)
         IN  Ratio(workingEquipment * 100, totalEquipment)

\* The cutoff of A+ taken strictly.
calculateOverallGrade_StrictTop(chemistryScore, clarityScore, equipmentScore) ==
    LET avgAtLeast(cutoff) ==
            (chemistryScore + clarityScore) * equipmentScore.den + equipmentScore.num
                >= 3 * cutoff * equipmentScore.den
        avgAbove(cutoff) ==
            (chemistryScore + clarityScore) * equipmentScore.den + equipmentScore.num
                > 3 * cutoff * equipmentScore.den
    IN  IF avgAbove(97) THEN "A+"
        ELSE IF avgAtLeast(93) THEN "A"
        ELSE IF avgAtLeast(87) THEN "B+"
        ELSE IF avgAtLeast(83) THEN "B"
        ELSE IF avgAtLeast(77) THEN "C+"
        ELSE IF avgAtLeast(73) THEN "C"
        ELSE IF avgAtLeast(67) THEN "D"
        ELSE "F"

\* The lowest pass mark at 65.
calculateOverallGrade_DFrom65(chemistryScore, clarityScore, equipmentScore) ==
    LET avgAtLeast(cutoff) ==
            (chemistryScore + clarityScore) * equipmentScore.den + equipmentScore.num
                >= 3 * cutoff * equipmentScore.den
    IN  IF avgAtLeast(97) THEN "A+"
        ELSE IF avgAtLeast(93) THEN "A"
        ELSE IF avgAtLeast(87) THEN "B+"
        ELSE IF avgAtLeast(83) THEN "B"
        ELSE IF avgAtLeast(77) THEN "C+"
        ELSE IF avgAtLeast(73) THEN "C"
        ELSE IF avgAtLeast(65) THEN "D"
        ELSE "F"

\* avgScore = (chemistryScore + clarityScore + equipmentScore) / 3, and
\* avgScore >= cutoff with both sides multiplied by 3 * den.
calculateOverallGrade(chemistryScore, clarityScore, equipmentScore) ==
    LET avgAtLeast(cutoff) ==
            (chemistryScore + clarityScore) * equipmentScore.den + equipmentScore.num
                >= 3 * cutoff * equipmentScore.den
    IN  IF avgAtLeast(97) THEN "A+"
        ELSE IF avgAtLeast(93) THEN "A"
        ELSE IF avgAtLeast(87) THEN "B+"
        ELSE IF avgAtLeast(83) THEN "B"
        ELSE IF avgAtLeast(77) THEN "C+"
        ELSE IF avgAtLeast(73) THEN "C"
        ELSE IF avgAtLeast(67) THEN "D"
        ELSE "F"

AdjustChemistry ==
    [priority |-> "high", action |-> "Adjust water chemistry",
     reason |-> "Chemical levels are outside optimal range",
     estimatedCost |-> 50, timeframe |-> "24 hours", difficulty |-> "easy"]
ChemistryAlert ==
    [type |-> "chemistry", severity |-> "warning",
     message |-> "Water chemistry requires immediate attention",
     actionRequired |-> TRUE]

performWeeklyAIAnalysis(assessmentData) ==
    LET chemistryScore == calculateChemistryScore(assessmentData.testResults)
        clarityScore == calculateClarityScore(assessmentData.waterClarity)
        equipmentScore == calculateEquipmentScore(assessmentData.equipmentStatus)
    IN  [overallGrade |->
             calculateOverallGrade(chemistryScore, clarityScore, equipmentScore),
         chemistryScore |-> chemistryScore,
         clarityScore |-> clarityScore,
         equipmentScore |-> equipmentScore,
         recommendations |-> IF chemistryScore < 70 THEN <<AdjustChemistry>> ELSE <<>>,
         alerts |-> IF chemistryScore < 70 THEN <<ChemistryAlert>> ELSE <<>>]

\* alerts.filter(alert => alert.actionRequired).map(...)
generateFollowUpActions(alerts) ==
    [i \in DOMAIN alerts |->
        [action |-> "Address chemistry issue", assignedTo |-> "system",
         status |-> "pending", notes |-> alerts[i].message]]

HasActiveSubscription ==
    \E i \in DOMAIN subscriptions : subscriptions[i] = "active"

\* POST /api/premium/assessment/weekly with a valid body.  The assessment
\* saved is the one returned.
PostWeeklyAssessment(value) ==
    /\ response = NoResponse
    /\ request' = [kind |-> "weeklyAssessment", body |-> value]
    /\ response' =
           IF ~HasActiveSubscription
           THEN [op |-> "weeklyAssessment", status |-> 403]
           ELSE LET aiAnalysis == performWeeklyAIAnalysis(value)
                IN  [op |-> "weeklyAssessment", status |-> 201,
                     aiAnalysis |-> aiAnalysis,
                     followUpActions |-> generateFollowUpActions(aiAnalysis.alerts)]
    /\ UNCHANGED <<recordVars, poolVars, logVars>>

\* The bodies: each parameter on and next to its band edges or missing, each
\* clarity or none, and up to MaxEquipment items working or not.
WeeklyBodies ==
    [testResults : {<<>>} \cup {<<results>> : results \in WeeklyTestResults},
     waterClarity :
         {<<>>} \cup {<<clarity>> : clarity \in
             {"crystal_clear", "slightly_cloudy", "cloudy", "very_cloudy", "murky"}},
     equipmentStatus :
         {<<>>} \cup {<<items>> : items \in SeqsUpTo({"working", "broken"}, MaxEquipment)}]

\* A client with or without an active subscription.
InitWeekly ==
    /\ waterChemistry = <<>>
    /\ now = 0
    /\ doc = <<>>
    /\ request = NoRequest
    /\ response = NoResponse
    /\ LogUntouched
    /\ maintenanceStatus = "scheduled"
    /\ technician = "u2"
    /\ owner = "u1"
    /\ equipment = <<>>
    /\ isActive = TRUE
    /\ subscriptions \in {<<>>, <<"active">>, <<"cancelled">>}
    /\ ServicesUntouched

NextWeekly ==
    \/ /\ response = NoResponse
       /\ \E value \in WeeklyBodies : PostWeeklyAssessment(value)
    \/ Deliver

SpecWeekly == InitWeekly /\ [][NextWeekly]_vars

\* calculateOverallGrade on its own, over sub-scores on and below every
\* cutoff.
GradeScores ==
    {0, 50, 66, 67, 72, 73, 76, 77, 82, 83, 86, 87, 92, 93, 96, 97, 100}

ApplyCalculateOverallGrade(chemistryScore, clarityScore, equipmentScore) ==
    /\ response = NoResponse
    /\ request' = [kind |-> "calculateOverallGrade",
                   chemistryScore |-> chemistryScore,
                   clarityScore |-> clarityScore,
                   equipmentScore |-> equipmentScore]
    /\ response' = [op |-> "calculateOverallGrade",
                    grade |-> calculateOverallGrade(chemistryScore, clarityScore,
                                                    Ratio(equipmentScore, 1))]
    /\ UNCHANGED <<recordVars, poolVars, logVars>>

InitGrade ==
    /\ waterChemistry = <<>>
    /\ now = 0
    /\ doc = <<>>
    /\ request = NoRequest
    /\ response = NoResponse
    /\ LogUntouched
    /\ RecordsUntouched

NextGrade ==
    \/ /\ response = NoResponse
       /\ \E chemistryScore \in GradeScores, clarityScore \in GradeScores,
             equipmentScore \in GradeScores :
               ApplyCalculateOverallGrade(chemistryScore, clarityScore, equipmentScore)
    \/ Deliver

SpecGrade == InitGrade /\ [][NextGrade]_vars

(***************************************************************************)
(* Consulting routes: calculateTrend of the pool report.  The means are    *)
(* compared exactly, each side multiplied by the two lengths.              *)
(***************************************************************************)
MaxTrend == 4

RECURSIVE Sum(_)
Sum(values) == IF Len(values) = 0 THEN 0 ELSE Head(values) + Sum(Tail(values))

Abs(x) == IF x < 0 THEN 0 - x ELSE x

\* readings.map(r => r[parameter]).filter(v => v !== undefined)
ValuesOf(readings, parameter) ==
    LET carrying == SelectSeq(readings, LAMBDA r : parameter \in DOMAIN r)
    IN  [i \in DOMAIN carrying |-> carrying[i][parameter]]

\* Three values asked for.
calculateTrend_ThreeValues(readings, parameter) ==
    IF Len(readings) < 2 THEN "insufficient_data"
    ELSE LET values == ValuesOf(readings, parameter) IN
         IF Len(values) < 3 THEN "insufficient_data"
         ELSE LET half == (Len(values) + 1) \div 2
                  recent == SubSeq(values, 1, half)
                  older == SubSeq(values, half + 1, Len(values))
                  difference == Sum(recent) * Len(older) - Sum(older) * Len(recent)
              IN  IF Sum(older) = 0
                  THEN IF difference > 0 THEN "increasing" ELSE "decreasing"
                  ELSE IF 100 * Abs(difference) < 5 * Abs(Sum(older)) * Len(recent)
                       THEN "stable"
                       ELSE IF (difference > 0) = (Sum(older) > 0)
                            THEN "increasing" ELSE "decreasing"

\* The recent half taken as floor(n / 2).
calculateTrend_SplitFloor(readings, parameter) ==
    IF Len(readings) < 2 THEN "insufficient_data"
    ELSE LET values == ValuesOf(readings, parameter) IN
         IF Len(values) < 2 THEN "insufficient_data"
         ELSE LET half == Len(values) \div 2
                  recent == SubSeq(values, 1, half)
                  older == SubSeq(values, half + 1, Len(values))
                  difference == Sum(recent) * Len(older) - Sum(older) * Len(recent)
              IN  IF Sum(older) = 0
                  THEN IF difference > 0 THEN "increasing" ELSE "decreasing"
                  ELSE IF 100 * Abs(difference) < 5 * Abs(Sum(older)) * Len(recent)
                       THEN "stable"
                       ELSE IF (difference > 0) = (Sum(older) > 0)
                            THEN "increasing" ELSE "decreasing"

\* recentAvg - olderAvg has the sign of difference, and
\* |percentChange| < 5 iff 100 * |difference| < 5 * |Sum(older)| * Len(recent).
\* An olderAvg of 0 divides to Infinity (difference > 0) or to NaN
\* (difference = 0): neither is below 5, and NaN > 0 is false.
calculateTrend(readings, parameter) ==
    IF Len(readings) < 2 THEN "insufficient_data"
    ELSE LET values == ValuesOf(readings, parameter) IN
         IF Len(values) < 2 THEN "insufficient_data"
         ELSE LET half == (Len(values) + 1) \div 2
                  recent == SubSeq(values, 1, half)
                  older == SubSeq(values, half + 1, Len(values))
                  difference == Sum(recent) * Len(older) - Sum(older) * Len(recent)
              IN  IF Sum(older) = 0
                  THEN IF difference > 0 THEN "increasing" ELSE "decreasing"
                  ELSE IF 100 * Abs(difference) < 5 * Abs(Sum(older)) * Len(recent)
                       THEN "stable"
                       ELSE IF (difference > 0) = (Sum(older) > 0)
                            THEN "increasing" ELSE "decreasing"

\* Readings that carry a pH or a chlorine value; one that carries the other
\* parameter carries no value of the parameter asked for.
TrendReadings ==
    {[pH |-> v] : v \in {700, 710, 750, 760}}
        \cup {[chlorine |-> v] : v \in {0, 100, 105}}

TrendSeries == SeqsUpTo(TrendReadings, MaxTrend)

ApplyCalculateTrend(readings, parameter) ==
    /\ response = NoResponse
    /\ request' = [kind |-> "calculateTrend", readings |-> readings,
                   parameter |-> parameter]
    /\ response' = [op |-> "calculateTrend",
                    trend |-> calculateTrend(readings, parameter)]
    /\ UNCHANGED <<recordVars, poolVars, logVars>>

InitTrend ==
    /\ waterChemistry = <<>>
    /\ now = 0
    /\ doc = <<>>
    /\ request = NoRequest
    /\ response = NoResponse
    /\ LogUntouched
    /\ RecordsUntouched

NextTrend ==
    \/ /\ response = NoResponse
       /\ \E readings \in TrendSeries, parameter \in {"pH", "chlorine"} :
              ApplyCalculateTrend(readings, parameter)
    \/ Deliver

SpecTrend == InitTrend /\ [][NextTrend]_vars

(***************************************************************************)
(* routes/maintenance.js with the user of the request: one maintenance     *)
(* log "m1" of the pool "p1".                                              *)
(***************************************************************************)
\* req.user as authenticateToken sets it: the owner of the pool and another
\* customer, the technician of the visit and another one, a consultant and
\* an admin.
Users ==
    { [_id |-> "u1", role |-> "customer"], [_id |-> "u3", role |-> "customer"],
      [_id |-> "u2", role |-> "technician"], [_id |-> "u4", role |-> "technician"],
      [_id |-> "u5", role |-> "consultant"], [_id |-> "u6", role |-> "admin"] }

MaintenanceIds == {"m1", "m2"}
PoolIds == {"p1", "p2"}

MaintenanceStatuses ==
    {"scheduled", "in_progress", "completed", "cancelled", "no_show"}

\* Bodies that updateMaintenanceSchema accepts, every key optional.  A
\* waterChemistryAfter with the three parameters stands for one that has
\* every field the pool requires of a reading, one with pH alone for one
\* that has not.
UpdateBodies ==
    { [k \in D |-> r[k]] :
        r \in [status : MaintenanceStatuses,
               tasks : {<<"completed">>},
               issues : {<<"critical">>},
               customerFeedback : {[comments |-> "", rating |-> 5]},
               waterChemistryAfter :
                   {[pH |-> 740, chlorine |-> 200, alkalinity |-> 100],
                    [pH |-> 740]}],
        D \in SUBSET {"status", "tasks", "issues", "customerFeedback",
                      "waterChemistryAfter"} }

\* { $set: value }: the fields of the body replace those of the log.
SetOr(value, key, stored) == IF key \in DOMAIN value THEN value[key] ELSE stored

\* PUT /api/maintenance/:maintenanceId answering 404 or 403.
PutMaintenanceRefusal(user, maintenanceId, body) ==
    IF maintenanceId # "m1" THEN <<404>>
    ELSE IF user.role = "technician" /\ technician # user._id THEN <<403>>
    ELSE IF user.role = "customer" /\ ~(DOMAIN body \subseteq {"customerFeedback"})
         THEN <<403>>
    ELSE <<>>

\* PUT /api/maintenance/:maintenanceId.  A waterChemistryAfter pushed to the
\* pool without a field the pool requires fails pool.save(): the error
\* handler answers and the log is not updated.
PutMaintenance(user, maintenanceId, body) ==
    LET refusal == PutMaintenanceRefusal(user, maintenanceId, body)
        pushes ==
            /\ "status" \in DOMAIN body /\ body.status = "completed"
            /\ "waterChemistryAfter" \in DOMAIN body
    IN  /\ response = NoResponse
        /\ request' = [kind |-> "putMaintenance", user |-> user,
                       maintenanceId |-> maintenanceId, body |-> body]
        /\ IF Len(refusal) > 0
           THEN /\ response' = [op |-> "putMaintenance", status |-> refusal[1]]
                /\ UNCHANGED <<waterChemistry, doc, logVars, maintenanceStatus>>
           ELSE IF pushes /\ DOMAIN body.waterChemistryAfter # AnalysisFields
           THEN /\ response' \in {[op |-> "putMaintenance", status |-> s] : s \in {400, 500}}
                /\ UNCHANGED <<waterChemistry, doc, logVars, maintenanceStatus>>
           ELSE /\ pushes => Len(waterChemistry) < MaxReadings
                /\ waterChemistry' =
                       IF pushes
                       THEN Append(waterChemistry, Stamp(body.waterChemistryAfter, now))
                       ELSE waterChemistry
                /\ doc' = IF pushes THEN waterChemistry' ELSE doc
                /\ maintenanceStatus' = SetOr(body, "status", maintenanceStatus)
                /\ tasks' = SetOr(body, "tasks", tasks)
                /\ issues' = SetOr(body, "issues", issues)
                /\ customerFeedback' = SetOr(body, "customerFeedback", customerFeedback)
                /\ response' = QualityResponse("putMaintenance", tasks', issues',
                                               customerFeedback')
        /\ UNCHANGED <<now, technician, owner, equipment, isActive, subscriptions,
                       serviceVars>>

\* DELETE /api/maintenance/:maintenanceId
DeleteMaintenance(user, maintenanceId) ==
    /\ response = NoResponse
    /\ request' = [kind |-> "deleteMaintenance", user |-> user,
                   maintenanceId |-> maintenanceId]
    /\ IF maintenanceId # "m1"
       THEN /\ response' = [op |-> "deleteMaintenance", status |-> 404]
            /\ UNCHANGED maintenanceStatus
       ELSE IF user.role = "technician" /\ technician # user._id
       THEN /\ response' = [op |-> "deleteMaintenance", status |-> 403]
            /\ UNCHANGED maintenanceStatus
       ELSE IF maintenanceStatus = "completed"
       THEN /\ response' = [op |-> "deleteMaintenance", status |-> 400]
            /\ UNCHANGED maintenanceStatus
       ELSE /\ maintenanceStatus' = "cancelled"
            /\ response' = [op |-> "deleteMaintenance", status |-> 200]
    /\ UNCHANGED <<poolVars, logVars, technician, owner, equipment, isActive,
                   subscriptions, serviceVars>>

\* req.query of GET /api/maintenance: the filters on stored fields of the
\* log, each optional.
ListQueries ==
    { [k \in D |-> r[k]] :
        r \in [status : {"scheduled", "completed"}, poolId : PoolIds,
               technicianId : {"u2", "u4"}],
        D \in SUBSET {"status", "poolId", "technicianId"} }

\* query[key] = value, replacing what the key held.
Assign(query, key, value) ==
    [k \in DOMAIN query \cup {key} |-> IF k = key THEN value ELSE query[k]]

\* The query object the handler builds: each key holds the set of values it
\* lets through ({ $in: [...] } or one value).
ListQuery(user, q) ==
    LET userPools == IF owner = user._id THEN {"p1"} ELSE {}
        byRole ==
            IF user.role = "customer" THEN Assign(<<>>, "pool", userPools)
            ELSE IF user.role = "technician" THEN Assign(<<>>, "technician", {user._id})
            ELSE <<>>
        withStatus ==
            IF "status" \in DOMAIN q THEN Assign(byRole, "status", {q.status}) ELSE byRole
        withPool ==
            IF "poolId" \in DOMAIN q THEN Assign(withStatus, "pool", {q.poolId})
            ELSE withStatus
    IN  IF "technicianId" \in DOMAIN q
        THEN Assign(withPool, "technician", {q.technicianId})
        ELSE withPool

\* MaintenanceLog.paginate(query, options) over the one log.
Paginate(query) ==
    LET log == [pool |-> "p1", technician |-> technician, status |-> maintenanceStatus]
    IN  IF \A k \in DOMAIN query : log[k] \in query[k]
        THEN <<[_id |-> "m1", pool |-> "p1", technician |-> technician,
                status |-> maintenanceStatus,
                qualityScore |-> calculateQualityScore(tasks, issues, customerFeedback)]>>
        ELSE <<>>

\* GET /api/maintenance outside demo mode.
GetMaintenanceList(user, q) ==
    /\ response = NoResponse
    /\ request' = [kind |-> "listMaintenance", user |-> user, query |-> q]
    /\ response' = [op |-> "listMaintenance", status |-> 200,
                    docs |-> Paginate(ListQuery(user, q))]
    /\ UNCHANGED <<recordVars, poolVars, logVars>>

InitVisits ==
    /\ waterChemistry = <<>>
    /\ now = 0
    /\ doc = <<>>
    /\ request = NoRequest
    /\ response = NoResponse
    /\ LogUntouched
    /\ RecordsUntouched

NextVisits ==
    \/ /\ response = NoResponse
       /\ \E user \in Users, maintenanceId \in MaintenanceIds, body \in UpdateBodies :
              PutMaintenance(user, maintenanceId, body)
    \/ /\ response = NoResponse
       /\ \E user \in Users, maintenanceId \in MaintenanceIds :
              DeleteMaintenance(user, maintenanceId)
    \/ /\ response = NoResponse
       /\ \E user \in Users, q \in ListQueries : GetMaintenanceList(user, q)
    \/ Deliver

SpecVisits == InitVisits /\ [][NextVisits]_vars

(***************************************************************************)
(* middleware/auth.js: canAccessPool and authorize, with the routes they   *)
(* guard.  The pool document is "p1"; "p2" names no document.              *)
(***************************************************************************)
\* Every customer let through.
canAccessPool_AnyCustomer(user, poolId) ==
    IF user.role = "admin" THEN <<>>
    ELSE IF user.role = "consultant" \/ user.role = "technician" THEN <<>>
    ELSE IF user.role = "customer" /\ poolId # "p1" THEN <<404>>
    ELSE <<>>

\* The status the middleware answers with, or <<>> for next().
canAccessPool(user, poolId) ==
    IF user.role = "admin" THEN <<>>
    ELSE IF user.role = "consultant" \/ user.role = "technician" THEN <<>>
    ELSE IF user.role = "customer" /\ poolId # "p1" THEN <<404>>
    ELSE IF user.role = "customer" /\ owner # user._id THEN <<403>>
    ELSE <<>>

\* Pool.findById(req.params.poolId) of a handler: <<404>> without document.
PoolNotFound(poolId) == IF poolId # "p1" THEN <<404>> ELSE <<>>

\* The answer of a request that does not reach the body of its handler, or
\* <<>> when it does.
Stopped(user, poolId) ==
    IF Len(canAccessPool(user, poolId)) > 0 THEN canAccessPool(user, poolId)
    ELSE PoolNotFound(poolId)

\* POST /api/pools/:poolId/water-chemistry behind canAccessPool.
PoolsPostWaterChemistry(user, poolId, value) ==
    /\ response = NoResponse
    /\ request' = [kind |-> "postWaterChemistry", user |-> user, poolId |-> poolId,
                   body |-> value]
    /\ IF Len(Stopped(user, poolId)) > 0
       THEN /\ response' = [op |-> "postWaterChemistry",
                            status |-> Stopped(user, poolId)[1]]
            /\ UNCHANGED <<waterChemistry, doc>>
       ELSE /\ Len(waterChemistry) < MaxReadings
            /\ waterChemistry' = Append(waterChemistry, Stamp(value, now))
            /\ doc' = SortByTestedAtDesc(waterChemistry')
            /\ response' = [op |-> "postWaterChemistry", status |-> 201,
                            waterChemistry |-> Stamp(value, now),
                            recommendations |-> getRecommendations(waterChemistry')]
    /\ UNCHANGED <<now, logVars, recordVars>>

\* GET /api/pools/:poolId/recommendations behind canAccessPool.
PoolsGetRecommendations(user, poolId) ==
    /\ response = NoResponse
    /\ request' = [kind |-> "getRecommendations", user |-> user, poolId |-> poolId]
    /\ IF Len(Stopped(user, poolId)) > 0
       THEN /\ response' = [op |-> "getRecommendations",
                            status |-> Stopped(user, poolId)[1]]
            /\ UNCHANGED doc
       ELSE /\ doc' = SortByTestedAtDesc(waterChemistry)
            /\ response' = [op |-> "getRecommendations", status |-> 200,
                            recommendations |-> getRecommendations(waterChemistry),
                            needsAttention |-> needsAttention(waterChemistry, now),
                            latestReading |-> latestWaterChemistry(waterChemistry)]
    /\ UNCHANGED <<waterChemistry, now, logVars, recordVars>>

\* POST /api/pools/:poolId/equipment behind canAccessPool: $push of the item.
PoolsPostEquipment(user, poolId, itemStatus) ==
    /\ response = NoResponse
    /\ request' = [kind |-> "postEquipment", user |-> user, poolId |-> poolId,
                   body |-> [status |-> itemStatus]]
    /\ IF Len(Stopped(user, poolId)) > 0
       THEN /\ response' = [op |-> "postEquipment", status |-> Stopped(user, poolId)[1]]
            /\ UNCHANGED equipment
       ELSE /\ Len(equipment) < MaxEquipment
            /\ equipment' = Append(equipment, itemStatus)
            /\ response' = [op |-> "postEquipment", status |-> 201,
                            equipment |-> itemStatus]
    /\ UNCHANGED <<poolVars, logVars, maintenanceStatus, technician, owner, isActive,
                   subscriptions, serviceVars>>

\* DELETE /api/pools/:poolId behind canAccessPool: { isActive: false }.
PoolsDelete(user, poolId) ==
    /\ response = NoResponse
    /\ request' = [kind |-> "deletePool", user |-> user, poolId |-> poolId]
    /\ IF Len(Stopped(user, poolId)) > 0
       THEN /\ response' = [op |-> "deletePool", status |-> Stopped(user, poolId)[1]]
            /\ UNCHANGED isActive
       ELSE /\ isActive' = FALSE
            /\ response' = [op |-> "deletePool", status |-> 200]
    /\ UNCHANGED <<poolVars, logVars, maintenanceStatus, technician, owner, equipment,
                   subscriptions, serviceVars>>

\* A JavaScript value handed to authorize: a string or an array.
Str(s) == [tag |-> "string", value |-> <<s>>]
Arr(items) == [tag |-> "array", value |-> items]

\* roles.includes(role) for a string role: SameValueZero, so a string equals
\* a string of the same characters and never an array.
includes_role(roles, role) ==
    \E i \in DOMAIN roles : roles[i].tag = "string" /\ roles[i].value = <<role>>

\* The routes guarded by authorize: roles is the rest parameter ...roles as
\* the call fills it, access the roles that the route's @access comment
\* names (all roles where it names none).
GuardedRoutes ==
    { [route |-> "GET /api/affiliates",
       roles |-> <<Arr(<<"admin", "consultant">>)>>,
       access |-> {"admin", "consultant"}, listed |-> TRUE],
      [route |-> "PUT /api/affiliates/:affiliateId/status",
       roles |-> <<Arr(<<"admin">>)>>,
       access |-> {"admin"}, listed |-> TRUE],
      [route |-> "POST /api/affiliates/:affiliateId/referral",
       roles |-> <<Arr(<<"admin", "consultant">>)>>,
       access |-> {"admin", "consultant"}, listed |-> TRUE],
      [route |-> "POST /api/legal/generate",
       roles |-> <<Arr(<<"admin", "consultant">>)>>,
       access |-> {"admin", "consultant"}, listed |-> TRUE],
      [route |-> "GET /api/premium/analytics",
       roles |-> <<Arr(<<"admin", "consultant">>)>>,
       access |-> {"admin", "consultant"}, listed |-> TRUE],
      [route |-> "POST /api/maintenance",
       roles |-> <<Str("technician"), Str("consultant"), Str("admin")>>,
       access |-> {"technician", "consultant", "admin"}, listed |-> FALSE],
      [route |-> "POST /api/pools",
       roles |-> <<Str("customer"), Str("consultant"), Str("admin")>>,
       access |-> {"customer", "consultant", "admin"}, listed |-> FALSE] }

\* authorize(...roles) for a request that authenticateToken gave a user:
\* 403, or next() and the handler answers.
Authorize(user, guarded) ==
    /\ response = NoResponse
    /\ request' = [kind |-> "authorize", user |-> user, route |-> guarded.route]
    /\ response' =
           IF ~includes_role(guarded.roles, user.role)
           THEN [op |-> "authorize", next |-> FALSE, status |-> 403]
           ELSE [op |-> "authorize", next |-> TRUE]
    /\ UNCHANGED <<recordVars, poolVars, logVars>>

\* A reading in band and one with pH above the band.
AccessBodies ==
    { [pH |-> 740, chlorine |-> 200, alkalinity |-> 100],
      [pH |-> 761, chlorine |-> 200, alkalinity |-> 100] }

InitAccess ==
    /\ waterChemistry = <<>>
    /\ now = 0
    /\ doc = <<>>
    /\ request = NoRequest
    /\ response = NoResponse
    /\ LogUntouched
    /\ RecordsUntouched

NextAccess ==
    \/ /\ response = NoResponse
       /\ \E user \in Users, poolId \in PoolIds, value \in AccessBodies :
              PoolsPostWaterChemistry(user, poolId, value)
    \/ /\ response = NoResponse
       /\ \E user \in Users, poolId \in PoolIds : PoolsGetRecommendations(user, poolId)
    \/ /\ response = NoResponse
       /\ \E user \in Users, poolId \in PoolIds, itemStatus \in {"working", "broken"} :
              PoolsPostEquipment(user, poolId, itemStatus)
    \/ /\ response = NoResponse
       /\ \E user \in Users, poolId \in PoolIds : PoolsDelete(user, poolId)
    \/ /\ response = NoResponse
       /\ \E user \in Users, guarded \in GuardedRoutes : Authorize(user, guarded)
    \/ Deliver

SpecAccess == InitAccess /\ [][NextAccess]_vars

(***************************************************************************)
(* Express dispatch of a GET request inside a router: the routes are tried *)
(* in the order of their registration and the first whose path matches     *)
(* takes the request.                                                      *)
(***************************************************************************)
Lit(name) == [kind |-> "literal", name |-> name]
Param(name) == [kind |-> "param", name |-> name]

\* The GET routes of routes/affiliates.js in the order of registration.
AffiliateGetRoutes ==
    <<[path |-> <<>>, chain |-> <<"authenticateToken", "authorize">>,
       roles |-> <<Arr(<<"admin", "consultant">>)>>, handler |-> "GET /"],
      [path |-> <<Param("affiliateId")>>, chain |-> <<"authenticateToken">>,
       roles |-> <<>>, handler |-> "GET /:affiliateId"],
      [path |-> <<Param("affiliateId"), Lit("referrals")>>,
       chain |-> <<"authenticateToken">>,
       roles |-> <<>>, handler |-> "GET /:affiliateId/referrals"],
      [path |-> <<Lit("packages")>>, chain |-> <<>>,
       roles |-> <<>>, handler |-> "GET /packages"],
      [path |-> <<Param("affiliateId"), Lit("analytics")>>,
       chain |-> <<"authenticateToken">>,
       roles |-> <<>>, handler |-> "GET /:affiliateId/analytics"],
      [path |-> <<Lit("marketplace")>>, chain |-> <<>>,
       roles |-> <<>>, handler |-> "GET /marketplace"]>>

\* The GET routes of routes/maintenance.js in the order of registration.
MaintenanceGetRoutes ==
    <<[path |-> <<>>, chain |-> <<"authenticateToken">>,
       roles |-> <<>>, handler |-> "GET /"],
      [path |-> <<Param("maintenanceId")>>, chain |-> <<"authenticateToken">>,
       roles |-> <<>>, handler |-> "GET /:maintenanceId"],
      [path |-> <<Lit("schedule"), Param("poolId")>>,
       chain |-> <<"authenticateToken", "canAccessPool">>,
       roles |-> <<>>, handler |-> "GET /schedule/:poolId"],
      [path |-> <<Lit("analytics")>>, chain |-> <<"authenticateToken", "authorize">>,
       roles |-> <<Str("consultant"), Str("admin")>>, handler |-> "GET /analytics"]>>

Routers == [affiliates |-> AffiliateGetRoutes, maintenance |-> MaintenanceGetRoutes]

\* The path of a route matches the path of a request: segment by segment, a
\* parameter taking any segment.
Matches(pattern, path) ==
    /\ Len(pattern) = Len(path)
    /\ \A i \in DOMAIN pattern :
           pattern[i].kind = "param" \/ pattern[i].name = path[i]

\* The first route registered that matches, <<>> when none does.
FirstMatch_Route(routes, path) ==
    LET matching == {i \in DOMAIN routes : Matches(routes[i].path, path)}
    IN  IF matching = {} THEN <<>>
        ELSE <<routes[CHOOSE i \in matching : \A j \in matching : i <= j]>>

\* The segments that mongoose casts to an ObjectId, and the documents.
ObjectIds == {"a1", "m1", "p1"}

\* The statuses a handler may answer with once the chain has passed.  A
\* findById of a segment that is no ObjectId throws a CastError, which the
\* error handler answers.
HandlerStatuses(handler, path, user) ==
    CASE handler \in {"GET /:affiliateId", "GET /:affiliateId/analytics"} ->
             IF path[1] \notin ObjectIds THEN {400, 500}
             ELSE IF path[1] = "a1" THEN {200} ELSE {404}
      [] handler = "GET /:affiliateId/referrals" ->
             IF path[1] \notin ObjectIds THEN {400, 500} ELSE {200}
      [] handler = "GET /schedule/:poolId" ->
             IF path[2] \notin ObjectIds THEN {400, 500} ELSE {200}
      [] handler = "GET /:maintenanceId" ->
             IF path[1] \notin ObjectIds THEN {400, 500}
             ELSE IF path[1] # "m1" THEN {404}
             ELSE IF user.role = "customer" /\ owner # user._id THEN {403}
             ELSE IF user.role = "technician" /\ technician # user._id THEN {403}
             ELSE {200}
      [] OTHER -> {200}

\* The statuses the request is answered with by the route that takes it:
\* each middleware of the chain in turn, then the handler.  canAccessPool
\* answers 500 when its findById throws.
RouteStatuses(route, path, tokenOpt) ==
    IF "authenticateToken" \in {route.chain[i] : i \in DOMAIN route.chain}
       /\ Len(tokenOpt) = 0
    THEN {401}
    ELSE IF "authorize" \in {route.chain[i] : i \in DOMAIN route.chain}
            /\ ~includes_role(route.roles, tokenOpt[1].role)
    THEN {403}
    ELSE IF "canAccessPool" \in {route.chain[i] : i \in DOMAIN route.chain}
            /\ tokenOpt[1].role = "customer" /\ path[2] \notin ObjectIds
    THEN {500}
    ELSE IF "canAccessPool" \in {route.chain[i] : i \in DOMAIN route.chain}
            /\ Len(canAccessPool(tokenOpt[1], path[2])) > 0
    THEN {canAccessPool(tokenOpt[1], path[2])[1]}
    ELSE HandlerStatuses(route.handler, path,
                         IF Len(tokenOpt) = 0 THEN [_id |-> "", role |-> ""]
                         ELSE tokenOpt[1])

\* GET <router><path> with the user of its access token, or without token.
Dispatch(routerName, path, tokenOpt) ==
    LET taking == FirstMatch_Route(Routers[routerName], path) IN
    /\ response = NoResponse
    /\ request' = [kind |-> "dispatch", router |-> routerName, path |-> path,
                   token |-> tokenOpt]
    /\ IF Len(taking) = 0
       THEN response' = [op |-> "dispatch", handler |-> "notFoundHandler",
                         status |-> 404]
       ELSE \E s \in RouteStatuses(taking[1], path, tokenOpt) :
                response' = [op |-> "dispatch", handler |-> taking[1].handler,
                             status |-> s]
    /\ UNCHANGED <<recordVars, poolVars, logVars>>

PathSegments ==
    {"packages", "marketplace", "analytics", "schedule", "referrals", "a1", "m1", "p1"}

RequestPaths == SeqsUpTo(PathSegments, 2)

InitDispatch ==
    /\ waterChemistry = <<>>
    /\ now = 0
    /\ doc = <<>>
    /\ request = NoRequest
    /\ response = NoResponse
    /\ LogUntouched
    /\ RecordsUntouched

NextDispatch ==
    \/ /\ response = NoResponse
       /\ \E routerName \in {"affiliates", "maintenance"}, path \in RequestPaths,
             tokenOpt \in {<<>>} \cup {<<user>> : user \in Users} :
               Dispatch(routerName, path, tokenOpt)
    \/ Deliver

SpecDispatch == InitDispatch /\ [][NextDispatch]_vars


(***************************************************************************)
(* Account routes: POST /api/auth/login.  The handler loads the user, then *)
(* awaits the comparison of the password, then writes; other requests run  *)
(* between the load and the write.  The request names the email of the     *)
(* account, which is active.                                               *)
(***************************************************************************)
LockTime == 2 * 60 * 60 * 1000
MaxLoginAttempts == 5
MaxFailures == 6

\* The clock advances: by no more than the skew while a request is in
\* flight, by more between requests.
Elapse(d, unit) ==
    /\ d > MaxSkew => \A s \in 1..MaxInflight : inflight[s] = Idle
    /\ now + d <= unit + MaxSkew
    /\ (now + d) % unit <= MaxSkew
    /\ now' = now + d
    /\ UNCHANGED <<recordVars, waterChemistry, doc, logVars, request, response>>

\* user.isLocked of a user document u read at time t.
isLocked(u, t) == u.lockUntil # <<>> /\ u.lockUntil[1] > t

\* The update that user.incLoginAttempts() sends, applied to the stored
\* document: the branch and the $set of lockUntil are decided on the loaded
\* document u, the $inc is applied to the stored counter.
incLoginAttempts(stored, u, t) ==
    IF u.lockUntil # <<>> /\ u.lockUntil[1] < t
    THEN [stored EXCEPT !.lockUntil = <<>>, !.loginAttempts = 1]
    ELSE [stored EXCEPT
            !.loginAttempts = @ + 1,
            !.lockUntil = IF u.loginAttempts + 1 >= MaxLoginAttempts /\ ~isLocked(u, t)
                          THEN <<t + LockTime>>
                          ELSE @]

\* The update of user.resetLoginAttempts().
resetLoginAttempts(stored) == [stored EXCEPT !.loginAttempts = 0, !.lockUntil = <<>>]

\* The load of the user: a locked account is answered 423 at once, otherwise
\* the handler goes on to compare the password of the request, which is the
\* stored one or not.
LoginFind(s, correct) ==
    /\ inflight[s] = Idle
    /\ IF isLocked(account, now)
       THEN /\ response = NoResponse
            /\ request' = [kind |-> "login", correct |-> correct]
            /\ response' = [op |-> "login", status |-> 423]
            /\ UNCHANGED inflight
       ELSE /\ inflight' = [inflight EXCEPT ![s] =
                              [pc |-> "comparePassword", correct |-> correct,
                               loginAttempts |-> account.loginAttempts,
                               lockUntil |-> account.lockUntil]]
            /\ UNCHANGED <<request, response>>
    /\ UNCHANGED <<poolVars, logVars, maintenanceStatus, technician, owner, equipment,
                   isActive, subscriptions, account, ebookFeature, ebooks, metrics,
                   referrals>>

\* The password did not match: incLoginAttempts, then 401.
LoginFail(s) ==
    /\ response = NoResponse
    /\ inflight[s].pc = "comparePassword"
    /\ ~inflight[s].correct
    /\ account.loginAttempts < MaxFailures
    /\ account' = incLoginAttempts(account, inflight[s], now)
    /\ inflight' = [inflight EXCEPT ![s] = Idle]
    /\ request' = [kind |-> "login", correct |-> FALSE]
    /\ response' = [op |-> "login", status |-> 401]
    /\ UNCHANGED <<poolVars, logVars, maintenanceStatus, technician, owner, equipment,
                   isActive, subscriptions, ebookFeature, ebooks, metrics, referrals>>

\* The password matched: resetLoginAttempts when the loaded document counts
\* failures, the save of lastLoginAt, then 200 with a token.
LoginSucceed(s) ==
    /\ response = NoResponse
    /\ inflight[s].pc = "comparePassword"
    /\ inflight[s].correct
    /\ account' = IF inflight[s].loginAttempts > 0
                  THEN resetLoginAttempts(account)
                  ELSE account
    /\ inflight' = [inflight EXCEPT ![s] = Idle]
    /\ request' = [kind |-> "login", correct |-> TRUE]
    /\ response' = [op |-> "login", status |-> 200]
    /\ UNCHANGED <<poolVars, logVars, maintenanceStatus, technician, owner, equipment,
                   isActive, subscriptions, ebookFeature, ebooks, metrics, referrals>>

InitLogin ==
    /\ waterChemistry = <<>>
    /\ now = 0
    /\ doc = <<>>
    /\ request = NoRequest
    /\ response = NoResponse
    /\ LogUntouched
    /\ RecordsUntouched

NextLogin ==
    \/ \E s \in 1..MaxInflight, correct \in BOOLEAN : LoginFind(s, correct)
    \/ \E s \in 1..MaxInflight : LoginFail(s)
    \/ \E s \in 1..MaxInflight : LoginSucceed(s)
    \/ Deliver
    \/ \E d \in {1, LockTime} : Elapse(d, LockTime)

SpecLogin == InitLogin /\ [][NextLogin]_vars


(***************************************************************************)
(* Premium routes: POST /api/premium/subscribe.  The handler looks for an  *)
(* active subscription of the client, then saves a new one; other requests *)
(* run between the two.                                                    *)
(***************************************************************************)
SubscriptionTiers == {"basic", "premium", "platinum", "concierge"}

\* usageLimit of the entry of defaultPremiumFeatures[tier] whose featureName
\* includes 'Ebook'.
EbookUsageLimit(tier) ==
    CASE tier = "basic" -> 1
      [] tier = "premium" -> 1
      [] tier = "platinum" -> 2
      [] tier = "concierge" -> -1

\* Validation and the search for an active subscription.
SubscribeFind(s, valid, tier) ==
    /\ inflight[s] = Idle
    /\ IF ~valid \/ HasActiveSubscription
       THEN /\ response = NoResponse
            /\ request' = [kind |-> "subscribe", valid |-> valid, tier |-> tier]
            /\ response' = [op |-> "subscribe",
                            status |-> IF ~valid THEN 400 ELSE 409]
            /\ UNCHANGED inflight
       ELSE /\ inflight' = [inflight EXCEPT ![s] =
                              [pc |-> "subscribe.save", tier |-> tier]]
            /\ UNCHANGED <<request, response>>
    /\ UNCHANGED <<poolVars, logVars, maintenanceStatus, technician, owner, equipment,
                   isActive, subscriptions, account, ebookFeature, ebooks, metrics,
                   referrals>>

\* The save of the new subscription, active by default, with the features of
\* its tier; findOne keeps returning an older active subscription.
SubscribeSave(s) ==
    /\ response = NoResponse
    /\ inflight[s].pc = "subscribe.save"
    /\ subscriptions' = Append(subscriptions, "active")
    /\ ebookFeature' = IF HasActiveSubscription
                       THEN ebookFeature
                       ELSE [usageLimit |-> EbookUsageLimit(inflight[s].tier),
                             usageCount |-> 0]
    /\ inflight' = [inflight EXCEPT ![s] = Idle]
    /\ request' = [kind |-> "subscribe", valid |-> TRUE, tier |-> inflight[s].tier]
    /\ response' = [op |-> "subscribe", status |-> 201]
    /\ UNCHANGED <<poolVars, logVars, maintenanceStatus, technician, owner, equipment,
                   isActive, account, ebooks, metrics, referrals>>

InitSubscribe ==
    /\ waterChemistry = <<>>
    /\ now = 0
    /\ doc = <<>>
    /\ request = NoRequest
    /\ response = NoResponse
    /\ LogUntouched
    /\ maintenanceStatus = "scheduled"
    /\ technician = "u2"
    /\ owner = "u1"
    /\ equipment = <<>>
    /\ isActive = TRUE
    /\ subscriptions \in {<<>>, <<"cancelled">>}
    /\ ServicesUntouched

NextSubscribe ==
    \/ \E s \in 1..MaxInflight, valid \in BOOLEAN, tier \in SubscriptionTiers :
          SubscribeFind(s, valid, tier)
    \/ \E s \in 1..MaxInflight : SubscribeSave(s)
    \/ Deliver

SpecSubscribe == InitSubscribe /\ [][NextSubscribe]_vars

(***************************************************************************)
(* Premium routes: POST /api/premium/ebook/request, generateCustomEbook    *)
(* and GET /api/premium/ebook/:ebookId/download.  An ebook is its          *)
(* generationStatus.status, whether deliveryUrl is set, its                *)
(* downloadInfo.downloadCount, whether the pool it names exists, and how   *)
(* far generateCustomEbook has come for it.                                *)
(***************************************************************************)
MaxEbooks == 2
AllowedDownloads == 5

NewEbook(poolExists) ==
    [status |-> "queued", deliveryUrl |-> FALSE, downloadCount |-> 0,
     poolExists |-> poolExists, job |-> "none"]

\* The search for the active subscription, the usage limit of its Ebook
\* feature and the validation of the body.
EbookRequestFind(s, valid, poolExists) ==
    /\ inflight[s] = Idle
    /\ LET limited == /\ ebookFeature.usageLimit # -1
                      /\ ebookFeature.usageCount >= ebookFeature.usageLimit
       IN  IF ~HasActiveSubscription \/ limited \/ ~valid
           THEN /\ response = NoResponse
                /\ request' = [kind |-> "ebookRequest", valid |-> valid]
                /\ response' = [op |-> "ebookRequest",
                                status |-> IF ~HasActiveSubscription \/ limited
                                           THEN 403 ELSE 400]
                /\ UNCHANGED inflight
           ELSE /\ inflight' = [inflight EXCEPT ![s] =
                                  [pc |-> "ebook.save", poolExists |-> poolExists,
                                   usageCount |-> ebookFeature.usageCount]]
                /\ UNCHANGED <<request, response>>
    /\ UNCHANGED <<poolVars, logVars, maintenanceStatus, technician, owner, equipment,
                   isActive, subscriptions, account, ebookFeature, ebooks, metrics,
                   referrals>>

\* The save of the new ebook.
EbookSave(s) ==
    /\ inflight[s].pc = "ebook.save"
    /\ Len(ebooks) < MaxEbooks
    /\ ebooks' = Append(ebooks, NewEbook(inflight[s].poolExists))
    /\ inflight' = [inflight EXCEPT ![s] =
                      [pc |-> "usage.save", ebook |-> Len(ebooks) + 1,
                       usageCount |-> inflight[s].usageCount]]
    /\ UNCHANGED <<poolVars, logVars, maintenanceStatus, technician, owner, equipment,
                   isActive, subscriptions, account, ebookFeature, metrics, referrals,
                   request, response>>

\* The usage count of the loaded subscription, incremented and saved, the
\* call of generateCustomEbook, and 201.
EbookUsageSave(s) ==
    /\ response = NoResponse
    /\ inflight[s].pc = "usage.save"
    /\ ebookFeature' = IF ebookFeature.usageLimit # -1
                       THEN [ebookFeature EXCEPT
                               !.usageCount = inflight[s].usageCount + 1]
                       ELSE ebookFeature
    /\ ebooks' = [ebooks EXCEPT ![inflight[s].ebook].job = "findById"]
    /\ inflight' = [inflight EXCEPT ![s] = Idle]
    /\ request' = [kind |-> "ebookRequest", valid |-> TRUE]
    /\ response' = [op |-> "ebookRequest", status |-> 201,
                    ebook |-> inflight[s].ebook]
    /\ UNCHANGED <<poolVars, logVars, maintenanceStatus, technician, owner, equipment,
                   isActive, subscriptions, account, metrics, referrals>>

\* generateCustomEbook up to the timer: the ebook is loaded and saved as
\* generating.
GenerateStart(i) ==
    /\ i \in DOMAIN ebooks
    /\ ebooks[i].job = "findById"
    /\ ebooks' = [ebooks EXCEPT ![i].status = "generating", ![i].job = "setTimeout"]
    /\ UNCHANGED <<poolVars, logVars, maintenanceStatus, technician, owner, equipment,
                   isActive, subscriptions, account, inflight, ebookFeature, metrics,
                   referrals, request, response>>

\* The callback of the timer: generateEbookContent throws on a pool that
\* populate did not find, and the ebook is saved as error; otherwise it is
\* saved as completed with its deliveryUrl.
GenerateFinish(i) ==
    /\ i \in DOMAIN ebooks
    /\ ebooks[i].job = "setTimeout"
    /\ ebooks' = [ebooks EXCEPT
                    ![i].status = IF ebooks[i].poolExists THEN "completed" ELSE "error",
                    ![i].deliveryUrl = ebooks[i].poolExists,
                    ![i].job = "done"]
    /\ UNCHANGED <<poolVars, logVars, maintenanceStatus, technician, owner, equipment,
                   isActive, subscriptions, account, inflight, ebookFeature, metrics,
                   referrals, request, response>>

\* The download handler up to its save: the ebook is loaded and checked.
DownloadFind(s, ebookId) ==
    /\ inflight[s] = Idle
    /\ LET refusal ==
               CASE ebookId \notin DOMAIN ebooks -> 404
                 [] ebooks[ebookId].status # "completed" -> 400
                 [] ebooks[ebookId].downloadCount >= AllowedDownloads -> 403
                 [] OTHER -> 0
       IN  IF refusal # 0
           THEN /\ response = NoResponse
                /\ request' = [kind |-> "download", ebookId |-> ebookId]
                /\ response' = [op |-> "download", status |-> refusal]
                /\ UNCHANGED inflight
           ELSE /\ inflight' = [inflight EXCEPT ![s] =
                                  [pc |-> "download.save", ebookId |-> ebookId,
                                   downloadCount |-> ebooks[ebookId].downloadCount]]
                /\ UNCHANGED <<request, response>>
    /\ UNCHANGED <<poolVars, logVars, maintenanceStatus, technician, owner, equipment,
                   isActive, subscriptions, account, ebookFeature, ebooks, metrics,
                   referrals>>

\* The save of the loaded ebook with its download count incremented, and the
\* answer with the downloadUrl.
DownloadSave(s) ==
    /\ response = NoResponse
    /\ inflight[s].pc = "download.save"
    /\ ebooks' = [ebooks EXCEPT ![inflight[s].ebookId].downloadCount =
                                    inflight[s].downloadCount + 1]
    /\ inflight' = [inflight EXCEPT ![s] = Idle]
    /\ request' = [kind |-> "download", ebookId |-> inflight[s].ebookId]
    /\ response' = [op |-> "download", status |-> 200]
    /\ UNCHANGED <<poolVars, logVars, maintenanceStatus, technician, owner, equipment,
                   isActive, subscriptions, account, ebookFeature, metrics, referrals>>

InitEbook ==
    /\ waterChemistry = <<>>
    /\ now = 0
    /\ doc = <<>>
    /\ request = NoRequest
    /\ response = NoResponse
    /\ LogUntouched
    /\ maintenanceStatus = "scheduled"
    /\ technician = "u2"
    /\ owner = "u1"
    /\ equipment = <<>>
    /\ isActive = TRUE
    /\ account = [loginAttempts |-> 0, lockUntil |-> <<>>, password |-> "p0",
                  passwordResetToken |-> <<>>, passwordResetExpires |-> <<>>]
    /\ inflight = [s \in 1..MaxInflight |-> Idle]
    /\ \/ /\ subscriptions = <<>>
          /\ ebookFeature = [usageLimit |-> 1, usageCount |-> 0]
       \/ /\ subscriptions = <<"active">>
          /\ \E tier \in SubscriptionTiers :
                ebookFeature = [usageLimit |-> EbookUsageLimit(tier), usageCount |-> 0]
    /\ ebooks = <<>>
    /\ metrics = [totalReferrals |-> 0, successfulReferrals |-> 0]
    /\ referrals = <<>>

NextEbookRequest ==
    \/ \E s \in 1..MaxInflight, valid \in BOOLEAN, poolExists \in BOOLEAN :
          EbookRequestFind(s, valid, poolExists)
    \/ \E s \in 1..MaxInflight : EbookSave(s)
    \/ \E s \in 1..MaxInflight : EbookUsageSave(s)
    \/ Deliver

SpecEbookRequest == InitEbook /\ [][NextEbookRequest]_vars

NextEbook ==
    \/ NextEbookRequest
    \/ \E i \in 1..MaxEbooks : GenerateStart(i)
    \/ \E i \in 1..MaxEbooks : GenerateFinish(i)
    \/ \E s \in 1..MaxInflight, ebookId \in 1..MaxEbooks : DownloadFind(s, ebookId)
    \/ \E s \in 1..MaxInflight : DownloadSave(s)

SpecEbook == InitEbook /\ [][NextEbook]_vars

\* The event loop runs every continuation that is ready and every timer
\* that is due: generateCustomEbook, once called, is carried to its end.
FairSpecEbook ==
    /\ SpecEbook
    /\ \A i \in 1..MaxEbooks : WF_vars(GenerateStart(i)) /\ WF_vars(GenerateFinish(i))


(***************************************************************************)
(* Account routes: POST /api/auth/forgot-password and /reset-password.     *)
(* account.password names the password whose hash is stored.  A reset      *)
(* token is a JWT over the user and the second of its issue: two tokens    *)
(* issued for the user within one second are the same string.              *)
(***************************************************************************)
OneHour == 60 * 60 * 1000

\* jwt.sign of generatePasswordResetToken at time t.
ResetToken(t) == [type |-> "password-reset", iat |-> t \div 1000]

\* The tokens a client can hold, and the new passwords it sends.
ResetTokens == {ResetToken(t) : t \in {0, OneHour}}
NewPasswords == {"p1", "p2"}

\* forgot-password for the email of the account: generatePasswordResetToken
\* and the save of the user.
ForgotPassword ==
    /\ response = NoResponse
    /\ account' = [account EXCEPT !.passwordResetToken = <<ResetToken(now)>>,
                                  !.passwordResetExpires = <<now + OneHour>>]
    /\ request' = [kind |-> "forgotPassword"]
    /\ response' = [op |-> "forgotPassword", status |-> 200]
    /\ UNCHANGED <<poolVars, logVars, maintenanceStatus, technician, owner, equipment,
                   isActive, subscriptions, inflight, ebookFeature, ebooks, metrics,
                   referrals>>

\* The query of reset-password: the user whose stored token is the token of
\* the request and whose passwordResetExpires is later than now.
ResetMatches(stored, token, t) ==
    /\ stored.passwordResetToken = <<token>>
    /\ stored.passwordResetExpires # <<>>
    /\ stored.passwordResetExpires[1] > t

\* reset-password up to its save: no user found is answered 400.
ResetFind(s, token, newPassword) ==
    /\ inflight[s] = Idle
    /\ IF ~ResetMatches(account, token, now)
       THEN /\ response = NoResponse
            /\ request' = [kind |-> "resetPassword", token |-> token,
                           newPassword |-> newPassword]
            /\ response' = [op |-> "resetPassword", status |-> 400]
            /\ UNCHANGED inflight
       ELSE /\ inflight' = [inflight EXCEPT ![s] =
                              [pc |-> "user.save", token |-> token,
                               newPassword |-> newPassword]]
            /\ UNCHANGED <<request, response>>
    /\ UNCHANGED <<poolVars, logVars, maintenanceStatus, technician, owner, equipment,
                   isActive, subscriptions, account, ebookFeature, ebooks, metrics,
                   referrals>>

\* The save of the loaded user with the new password and without token.
ResetSave(s) ==
    /\ response = NoResponse
    /\ inflight[s].pc = "user.save"
    /\ account' = [account EXCEPT !.password = inflight[s].newPassword,
                                  !.passwordResetToken = <<>>,
                                  !.passwordResetExpires = <<>>]
    /\ inflight' = [inflight EXCEPT ![s] = Idle]
    /\ request' = [kind |-> "resetPassword", token |-> inflight[s].token,
                   newPassword |-> inflight[s].newPassword]
    /\ response' = [op |-> "resetPassword", status |-> 200]
    /\ UNCHANGED <<poolVars, logVars, maintenanceStatus, technician, owner, equipment,
                   isActive, subscriptions, ebookFeature, ebooks, metrics, referrals>>

NextReset ==
    \/ ForgotPassword
    \/ \E s \in 1..MaxInflight, token \in ResetTokens, newPassword \in NewPasswords :
          ResetFind(s, token, newPassword)
    \/ \E s \in 1..MaxInflight : ResetSave(s)
    \/ Deliver
    \/ \E d \in {1, OneHour} : Elapse(d, OneHour)

SpecReset == InitLogin /\ [][NextReset]_vars

(***************************************************************************)
(* Affiliate routes: POST /api/affiliates/:affiliateId/referral and        *)
(* PUT /api/affiliates/referral/:referralId, for one active affiliate.     *)
(***************************************************************************)
MaxReferrals == 2
MaxCompletions == 3

ReferralStatuses ==
    {"sent", "acknowledged", "scheduled", "in_progress", "completed", "cancelled"}

\* The bodies of the PUT: status and actualValue are optional.
ReferralUpdates ==
    { [f \in D |-> r[f]] :
        r \in [status : {"acknowledged", "completed", "cancelled"}, actualValue : {0, 100}],
        D \in SUBSET {"status", "actualValue"} }

\* authorize(['admin', 'consultant']) as the route calls it, then the
\* validation of the body, then the referral is saved with the default
\* status and the affiliate's totalReferrals is incremented.
PostReferral(user, valid) ==
    /\ response = NoResponse
    /\ request' = [kind |-> "postReferral", user |-> user, valid |-> valid]
    /\ IF ~includes_role(<<Arr(<<"admin", "consultant">>)>>, user.role)
       THEN /\ response' = [op |-> "postReferral", status |-> 403]
            /\ UNCHANGED <<referrals, metrics>>
       ELSE IF ~valid
       THEN /\ response' = [op |-> "postReferral", status |-> 400]
            /\ UNCHANGED <<referrals, metrics>>
       ELSE /\ Len(referrals) < MaxReferrals
            /\ referrals' = Append(referrals, "sent")
            /\ metrics' = [metrics EXCEPT !.totalReferrals = @ + 1]
            /\ response' = [op |-> "postReferral", status |-> 201]
    /\ UNCHANGED <<poolVars, logVars, maintenanceStatus, technician, owner, equipment,
                   isActive, subscriptions, account, inflight, ebookFeature, ebooks>>

\* The update of a referral: a truthy status replaces the stored one, and a
\* body with status completed and a truthy actualValue increments the
\* affiliate's successfulReferrals.
PutReferral(referralId, body) ==
    /\ response = NoResponse
    /\ request' = [kind |-> "putReferral", referralId |-> referralId, body |-> body]
    /\ IF referralId \notin DOMAIN referrals
       THEN /\ response' = [op |-> "putReferral", status |-> 404]
            /\ UNCHANGED <<referrals, metrics>>
       ELSE LET completes == /\ "status" \in DOMAIN body
                             /\ body.status = "completed"
                             /\ "actualValue" \in DOMAIN body
                             /\ body.actualValue # 0
            IN  /\ completes => metrics.successfulReferrals < MaxCompletions
                /\ referrals' = IF "status" \in DOMAIN body
                                THEN [referrals EXCEPT ![referralId] = body.status]
                                ELSE referrals
                /\ metrics' = IF completes
                              THEN [metrics EXCEPT !.successfulReferrals = @ + 1]
                              ELSE metrics
                /\ response' = [op |-> "putReferral", status |-> 200]
    /\ UNCHANGED <<poolVars, logVars, maintenanceStatus, technician, owner, equipment,
                   isActive, subscriptions, account, inflight, ebookFeature, ebooks>>

\* analytics.conversionRate of GET /:affiliateId/analytics.
conversionRate(m) ==
    IF m.totalReferrals > 0
    THEN Ratio(m.successfulReferrals, m.totalReferrals)
    ELSE Ratio(0, 1)

\* The affiliate has no referral, or one that was sent to it and counted:
\* referralType defaults to automated, referrals are also recorded outside
\* the route above.
InitReferrals ==
    /\ waterChemistry = <<>>
    /\ now = 0
    /\ doc = <<>>
    /\ request = NoRequest
    /\ response = NoResponse
    /\ LogUntouched
    /\ maintenanceStatus = "scheduled"
    /\ technician = "u2"
    /\ owner = "u1"
    /\ equipment = <<>>
    /\ isActive = TRUE
    /\ subscriptions = <<>>
    /\ account = [loginAttempts |-> 0, lockUntil |-> <<>>, password |-> "p0",
                  passwordResetToken |-> <<>>, passwordResetExpires |-> <<>>]
    /\ inflight = [s \in 1..MaxInflight |-> Idle]
    /\ ebookFeature = [usageLimit |-> 1, usageCount |-> 0]
    /\ ebooks = <<>>
    /\ referrals \in {<<>>, <<"sent">>}
    /\ metrics = [totalReferrals |-> Len(referrals), successfulReferrals |-> 0]

NextReferrals ==
    \/ \E user \in Users, valid \in BOOLEAN : PostReferral(user, valid)
    \/ \E referralId \in 1..MaxReferrals, body \in ReferralUpdates :
          PutReferral(referralId, body)
    \/ Deliver

SpecReferrals == InitReferrals /\ [][NextReferrals]_vars

(***************************************************************************)
(* Properties.                                                             *)
(***************************************************************************)
\* The readings of greatest testedAt.
Newest(wc) ==
    {i \in DOMAIN wc : \A j \in DOMAIN wc : wc[j].testedAt <= wc[i].testedAt}

PhOutOfBand(r) == r.pH < 720 \/ r.pH > 760
ChlorineOutOfBand(r) == r.chlorine < 100 \/ r.chlorine > 300
AlkalinityOutOfBand(r) == r.alkalinity < 80 \/ r.alkalinity > 120
OutOfBand(r) == PhOutOfBand(r) \/ ChlorineOutOfBand(r) \/ AlkalinityOutOfBand(r)

\* C1: needsAttention() is true iff the pool has no reading, or its latest
\* reading (greatest testedAt) was taken strictly more than 7 days before the
\* evaluation instant, or pH, chlorine or alkalinity of that reading is out
\* of band; a reading exactly 7 days old and in band yields false.
C1_NeedsAttentionIff ==
    response.op = "getRecommendations" =>
        IF Len(waterChemistry) = 0
        THEN response.needsAttention = TRUE
        ELSE \E i \in Newest(waterChemistry) :
                response.needsAttention =
                    (\/ now - waterChemistry[i].testedAt > SevenDays
                     \/ OutOfBand(waterChemistry[i]))

\* An older reading out of band, the latest one in band and exactly 7 days
\* old: no attention needed.
C1_Witness ==
    /\ response.op = "getRecommendations"
    /\ Len(waterChemistry) = 2
    /\ waterChemistry[1].testedAt < waterChemistry[2].testedAt
    /\ OutOfBand(waterChemistry[1])
    /\ ~OutOfBand(waterChemistry[2])
    /\ now - waterChemistry[2].testedAt = SevenDays
    /\ response.needsAttention = FALSE

PhMessages == {PhLowRec.message, PhHighRec.message}
PhActions == {PhLowAction, PhHighAction}
PhIssues == {PhLowIssue, PhHighIssue}

\* C2: a pH p is within band iff 7.2 <= p <= 7.6: at exactly 7.2 and 7.6
\* there is no pH recommendation and no pH issue, p < 7.2 gives exactly the
\* raise-pH recommendation and p > 7.6 exactly the lower-pH one, in
\* getRecommendations and in the rule-based analysis alike.
C2_PhBandInclusive ==
    /\ (response.op = "getRecommendations" /\ Len(waterChemistry) = 1) =>
           LET p == waterChemistry[1].pH
               phRecs == SelectSeq(response.recommendations,
                                   LAMBDA r : r.message \in PhMessages)
           IN  /\ (720 <= p /\ p <= 760) => phRecs = <<>>
               /\ p < 720 => phRecs = <<PhLowRec>>
               /\ p > 760 => phRecs = <<PhHighRec>>
    /\ (/\ response.op = "aiAnalysis"
        /\ Len(request.waterChemistry) = 1
        /\ "pH" \in DOMAIN request.waterChemistry[1]) =>
           LET p == request.waterChemistry[1].pH
               phRecs == SelectSeq(response.analysis.recommendations,
                                   LAMBDA r : r \in PhActions)
               phIssues == SelectSeq(response.analysis.issues,
                                     LAMBDA i : i \in PhIssues)
           IN  /\ (720 <= p /\ p <= 760) => phRecs = <<>> /\ phIssues = <<>>
               /\ p < 720 => phRecs = <<PhLowAction>> /\ phIssues = <<PhLowIssue>>
               /\ p > 760 => phRecs = <<PhHighAction>> /\ phIssues = <<PhHighIssue>>

\* The analysis of a pH of exactly 7.6 finds no pH issue.
C2_Witness ==
    /\ response.op = "aiAnalysis"
    /\ Len(request.waterChemistry) = 1
    /\ "pH" \in DOMAIN request.waterChemistry[1]
    /\ request.waterChemistry[1].pH = 760
    /\ \A i \in DOMAIN response.analysis.issues :
           response.analysis.issues[i] \notin PhIssues
    /\ \E i \in DOMAIN response.analysis.checks :
           response.analysis.checks[i] = PhCheck

SymptomActions == {AlgaeAction, CloudyAction, SmellAction}
ChemistryActions ==
    {PhLowAction, PhHighAction, ChlorineLowAction, ChlorineHighAction,
     AlkalinityLowAction, AlkalinityHighAction}

Keywords == {Algae, Cloudy, Smell}
KeywordAction(keyword) ==
    CASE keyword = Algae -> AlgaeAction
      [] keyword = Cloudy -> CloudyAction
      [] keyword = Smell -> SmellAction

\* The keywords a symptom holds, whatever its case.
Matched(symptom) == {k \in Keywords : includes(toLowerCase(symptom), k)}

RECURSIVE MatchCount(_, _)
\* The number of keyword matches in the first n symptoms.
MatchCount(symptoms, n) ==
    IF n = 0 THEN 0
    ELSE MatchCount(symptoms, n - 1) + Cardinality(Matched(symptoms[n]))

\* C3 as stated: without a reading the output is exactly the one urgent
\* recommendation 'Water chemistry test needed immediately', whatever the
\* symptoms.
C3_Original ==
    /\ (response.op = "getRecommendations" /\ Len(waterChemistry) = 0) =>
           /\ Len(response.recommendations) = 1
           /\ response.recommendations[1].type = "urgent"
           /\ response.recommendations[1].message = TestNeeded.message
    /\ (response.op = "aiAnalysis" /\ Len(request.waterChemistry) = 0) =>
           response.analysis.recommendations = <<TestNeeded.message>>

\* C3 amended: getRecommendations, which takes no symptoms, returns exactly
\* the one urgent recommendation 'Water chemistry test needed immediately'
\* for a pool without a reading; the rule-based analysis of a request
\* without waterChemistry reports no issue and recommends exactly one action
\* for each keyword match of the supplied symptoms, and nothing else.
C3_NoReading ==
    /\ (response.op = "getRecommendations" /\ Len(waterChemistry) = 0) =>
           /\ Len(response.recommendations) = 1
           /\ response.recommendations[1].type = "urgent"
           /\ response.recommendations[1].message = TestNeeded.message
    /\ (response.op = "aiAnalysis" /\ Len(request.waterChemistry) = 0) =>
           LET recs == response.analysis.recommendations
           IN  /\ response.analysis.issues = <<>>
               /\ \A i \in DOMAIN recs : recs[i] \in SymptomActions
               /\ Len(recs) = MatchCount(request.symptoms, Len(request.symptoms))

\* No waterChemistry and a symptom that matches: a symptom-derived action.
C3_Witness ==
    /\ response.op = "aiAnalysis"
    /\ Len(request.waterChemistry) = 0
    /\ Len(request.symptoms) > 0
    /\ Len(response.analysis.recommendations) > 0

ChlorineMessages == {ChlorineLowRec.message, ChlorineHighRec.message}
AlkalinityMessages == {AlkalinityLowRec.message, AlkalinityHighRec.message}

\* The parameter a recommendation is about: 1 pH, 2 chlorine, 3 alkalinity.
RecParam(rec) ==
    CASE rec.message \in PhMessages -> 1
      [] rec.message \in ChlorineMessages -> 2
      [] rec.message \in AlkalinityMessages -> 3
      [] OTHER -> 0

\* C4: for a present reading getRecommendations emits exactly one
\* recommendation for each of pH, chlorine, alkalinity that is out of band,
\* none for one in band, in the order pH, chlorine, alkalinity; the reading
\* pH 7.8, chlorine 0.5, alkalinity 100 gives exactly [lower-pH, add-chlorine].
C4_OnePerParameterInOrder ==
    (response.op = "getRecommendations" /\ Len(waterChemistry) = 1) =>
        LET r == waterChemistry[1]
            recs == response.recommendations
            About(n) == {i \in DOMAIN recs : RecParam(recs[i]) = n}
        IN  /\ Cardinality(About(1)) = IF PhOutOfBand(r) THEN 1 ELSE 0
            /\ Cardinality(About(2)) = IF ChlorineOutOfBand(r) THEN 1 ELSE 0
            /\ Cardinality(About(3)) = IF AlkalinityOutOfBand(r) THEN 1 ELSE 0
            /\ Cardinality(About(0)) = 0
            /\ \A i, j \in DOMAIN recs :
                   i < j => RecParam(recs[i]) < RecParam(recs[j])
            /\ (r.pH = 780 /\ r.chlorine = 50 /\ r.alkalinity = 100) =>
                   /\ Len(recs) = 2
                   /\ recs[1].message = PhHighRec.message
                   /\ recs[2].message = ChlorineLowRec.message

\* The reading of the example has been answered.
C4_Witness ==
    /\ response.op = "getRecommendations"
    /\ Len(waterChemistry) = 1
    /\ waterChemistry[1].pH = 780
    /\ waterChemistry[1].chlorine = 50
    /\ waterChemistry[1].alkalinity = 100
    /\ Len(response.recommendations) = 2

\* C5: kind and priority of each chemistry-derived recommendation: pH < 7.2
\* and pH > 7.6 chemical/high, chlorine < 1.0 chemical/urgent, chlorine > 3.0
\* safety/medium, alkalinity < 80 and > 120 chemical/medium.
C5_KindAndPriority ==
    (response.op = "getRecommendations" /\ Len(waterChemistry) = 1) =>
        LET r == waterChemistry[1]
            recs == response.recommendations
            Is(n, type, priority) ==
                \E i \in DOMAIN recs :
                    /\ RecParam(recs[i]) = n
                    /\ recs[i].type = type
                    /\ recs[i].priority = priority
        IN  /\ PhOutOfBand(r) => Is(1, "chemical", "high")
            /\ r.chlorine < 100 => Is(2, "chemical", "urgent")
            /\ r.chlorine > 300 => Is(2, "safety", "medium")
            /\ AlkalinityOutOfBand(r) => Is(3, "chemical", "medium")

\* Chlorine above 3.0 ppm answered with a safety recommendation.
C5_Witness ==
    /\ response.op = "getRecommendations"
    /\ Len(waterChemistry) = 1
    /\ waterChemistry[1].chlorine > 300
    /\ \E i \in DOMAIN response.recommendations :
           /\ response.recommendations[i].type = "safety"
           /\ response.recommendations[i].priority = "medium"

\* C6: every recommendation getRecommendations returns, also for a pool
\* without a reading, has a kind in {chemical, safety, urgent, maintenance},
\* a message, and a priority in {low, medium, high, urgent}.
C6_EveryRecommendationTyped ==
    response.op = "getRecommendations" =>
        \A i \in DOMAIN response.recommendations :
            LET rec == response.recommendations[i]
            IN  /\ "type" \in DOMAIN rec
                /\ rec.type \in {"chemical", "safety", "urgent", "maintenance"}
                /\ "message" \in DOMAIN rec
                /\ "priority" \in DOMAIN rec
                /\ rec.priority \in {"low", "medium", "high", "urgent"}

\* C7: in the rule-based analysis the symptom-derived recommendations follow
\* all chemistry-derived ones, and those of an earlier symptom precede those
\* of a later symptom.
C7_SymptomActionsLastInOrder ==
    response.op = "aiAnalysis" =>
        LET recs == response.analysis.recommendations
            symptoms == request.symptoms
            k == Len(recs) - MatchCount(symptoms, Len(symptoms))
        IN  /\ k >= 0
            /\ \A i \in 1..k : recs[i] \in ChemistryActions
            /\ \A j \in DOMAIN symptoms :
                   {recs[i] : i \in (k + MatchCount(symptoms, j - 1) + 1)
                                    ..(k + MatchCount(symptoms, j))}
                       = {KeywordAction(keyword) : keyword \in Matched(symptoms[j])}

\* A chemistry-derived action, then those of two symptoms that match
\* different keywords.
C7_Witness ==
    /\ response.op = "aiAnalysis"
    /\ Len(request.symptoms) = 2
    /\ Matched(request.symptoms[1]) # {}
    /\ Matched(request.symptoms[2]) # {}
    /\ Matched(request.symptoms[1]) # Matched(request.symptoms[2])
    /\ response.analysis.recommendations[1] \in ChemistryActions
    /\ Len(response.analysis.recommendations) >= 3

Count(seq, S) == Cardinality({i \in DOMAIN seq : seq[i] \in S})

RawScore(ts, is, feedback) ==
    100 - 10 * Count(ts, {"failed", "skipped"})
        - 20 * Count(is, {"critical"})
        - 10 * Count(is, {"major"})
        + (IF "rating" \in DOMAIN feedback THEN 5 * (feedback.rating - 3) ELSE 0)

Clamp(x) == IF x < 0 THEN 0 ELSE IF x > 100 THEN 100 ELSE x

Scored == response.op \in {"getMaintenance", "putMaintenance"}

\* C8: the score is clamp(100 - 10 * failed or skipped tasks - 20 * critical
\* issues - 10 * major issues + 5 * (rating - 3) if rated, 0, 100), clamped
\* once at the end; tasks [completed, failed, completed], one critical issue
\* and rating 5 score 80.
C8_QualityScoreFormula ==
    Scored =>
        /\ response.qualityScore = Clamp(RawScore(tasks, issues, customerFeedback))
        /\ (/\ tasks = <<"completed", "failed", "completed">>
            /\ issues = <<"critical">>
            /\ "rating" \in DOMAIN customerFeedback
            /\ customerFeedback.rating = 5) => response.qualityScore = 80

\* The log of the example has been scored.
C8_Witness ==
    /\ Scored
    /\ tasks = <<"completed", "failed", "completed">>
    /\ issues = <<"critical">>
    /\ "rating" \in DOMAIN customerFeedback
    /\ customerFeedback.rating = 5
    /\ response.qualityScore = 80

\* C9: whatever the tasks, the issues and the rating, the score is in
\* [0, 100].
C9_QualityScoreInRange ==
    Scored => response.qualityScore \in 0..100

\* Deductions beyond 100: the score is 0.
C9_Witness ==
    /\ Scored
    /\ RawScore(tasks, issues, customerFeedback) < 0
    /\ response.qualityScore = 0

\* C10: one more failed or skipped task, critical issue or major issue never
\* raises the score; one more pending, in_progress or completed task or
\* minor or moderate issue leaves it unchanged.
C10_QualityScoreMonotone ==
    response.op = "getMaintenance" =>
        LET WithTask(status) ==
                calculateQualityScore(Append(tasks, status), issues,
                                      customerFeedback)
            WithIssue(severity) ==
                calculateQualityScore(tasks, Append(issues, severity),
                                      customerFeedback)
        IN  /\ \A status \in {"failed", "skipped"} :
                   WithTask(status) <= response.qualityScore
            /\ \A status \in {"pending", "in_progress", "completed"} :
                   WithTask(status) = response.qualityScore
            /\ \A severity \in {"critical", "major"} :
                   WithIssue(severity) <= response.qualityScore
            /\ \A severity \in {"minor", "moderate"} :
                   WithIssue(severity) = response.qualityScore

\* A log scored above 0 that scores strictly less with one more failed task
\* and with one more critical issue.
C10_Witness ==
    /\ response.op = "getMaintenance"
    /\ Len(tasks) > 0
    /\ Len(issues) > 0
    /\ calculateQualityScore(Append(tasks, "failed"), issues, customerFeedback)
           < response.qualityScore
    /\ calculateQualityScore(tasks, Append(issues, "critical"), customerFeedback)
           < response.qualityScore

(***************************************************************************)
(* Weekly assessment: grade and sub-scores.                                *)
(***************************************************************************)
GradeRank(grade) ==
    CASE grade = "F" -> 0
      [] grade = "D" -> 1
      [] grade = "C" -> 2
      [] grade = "C+" -> 3
      [] grade = "B" -> 4
      [] grade = "B+" -> 5
      [] grade = "A" -> 6
      [] grade = "A+" -> 7

GradeCutoffs ==
    <<[mean |-> 97, grade |-> "A+"], [mean |-> 93, grade |-> "A"],
      [mean |-> 87, grade |-> "B+"], [mean |-> 83, grade |-> "B"],
      [mean |-> 77, grade |-> "C+"], [mean |-> 73, grade |-> "C"],
      [mean |-> 67, grade |-> "D"]>>

\* The letter of the first cutoff that a mean of sum / 3 reaches.
FirstMatch(sum) ==
    LET reached == {i \in DOMAIN GradeCutoffs : sum >= 3 * GradeCutoffs[i].mean}
    IN  IF reached = {} THEN "F"
        ELSE GradeCutoffs[CHOOSE i \in reached : \A j \in reached : i <= j].grade

\* C11: calculateOverallGrade gives the letter of the first cutoff (97 A+,
\* 93 A, 87 B+, 83 B, 77 C+, 73 C, 67 D, else F) that the unweighted mean of
\* the three sub-scores reaches; (100, 100, 100) is A+, (0, 0, 0) is F, and
\* raising any one sub-score never lowers the grade.
C11_GradeByCutoffs ==
    response.op = "calculateOverallGrade" =>
        LET c == request.chemistryScore
            l == request.clarityScore
            e == request.equipmentScore
            Grade(x, y, z) == calculateOverallGrade(x, y, Ratio(z, 1))
        IN  /\ response.grade = FirstMatch(c + l + e)
            /\ (c = 100 /\ l = 100 /\ e = 100) => response.grade = "A+"
            /\ (c = 0 /\ l = 0 /\ e = 0) => response.grade = "F"
            /\ \A s \in GradeScores :
                   /\ s >= c => GradeRank(Grade(s, l, e)) >= GradeRank(response.grade)
                   /\ s >= l => GradeRank(Grade(c, s, e)) >= GradeRank(response.grade)
                   /\ s >= e => GradeRank(Grade(c, l, s)) >= GradeRank(response.grade)

\* A mean of exactly 97 is graded A+ and a mean just below is graded A.
C11_Witness ==
    /\ response.op = "calculateOverallGrade"
    /\ request.chemistryScore + request.clarityScore + request.equipmentScore = 291
    /\ response.grade = "A+"
    /\ calculateOverallGrade(request.chemistryScore - 1, request.clarityScore,
                             Ratio(request.equipmentScore, 1)) = "A"

\* The assessment of the example: clarity very_cloudy, 3 of 4 items working,
\* and of the tested parameters only pH out of band.
WeeklyExample ==
    /\ response.op = "weeklyAssessment"
    /\ response.status = 201
    /\ request.body.waterClarity = <<"very_cloudy">>
    /\ Len(request.body.equipmentStatus) = 1
    /\ Len(request.body.equipmentStatus[1]) = 4
    /\ Cardinality({i \in 1..4 : request.body.equipmentStatus[1][i] = "working"}) = 3
    /\ Len(request.body.testResults) = 1
    /\ request.body.testResults[1] \in
           [pH : {719, 761}, chlorine : {100, 300}, alkalinity : {80, 120}]

ExampleScores ==
    /\ response.aiAnalysis.clarityScore = 40
    /\ response.aiAnalysis.equipmentScore.num = 75 * response.aiAnalysis.equipmentScore.den
    /\ response.aiAnalysis.chemistryScore = 80
    /\ (response.aiAnalysis.chemistryScore + response.aiAnalysis.clarityScore)
           * response.aiAnalysis.equipmentScore.den
         + response.aiAnalysis.equipmentScore.num
       = 3 * 65 * response.aiAnalysis.equipmentScore.den

\* C12 as stated: the example assessment scores 40, 75 and 80, mean 65, and
\* is graded D.
C12_Original ==
    WeeklyExample => (ExampleScores /\ response.aiAnalysis.overallGrade = "D")

\* C12: the example assessment (very_cloudy, 3 of 4 items working, only pH
\* out of band) scores clarity 40, equipment 75 and chemistry 80, a mean of
\* 65, and a mean of 65 is below the cutoff 67 of D: the grade is F.
C12_WeeklyExampleGradedF ==
    WeeklyExample => (ExampleScores /\ response.aiAnalysis.overallGrade = "F")

C12_Witness ==
    /\ WeeklyExample
    /\ response.aiAnalysis.overallGrade = "F"
    /\ request.body.testResults[1].pH = 761

\* 100 less 20, 20 and 15 for pH, chlorine and alkalinity out of band,
\* floored at 0; a parameter without value is not out of band.
Deducted(results) ==
    LET Out(field, low, high) ==
            field \in DOMAIN results /\ ~(low <= results[field] /\ results[field] <= high)
        raw == 100 - (IF Out("pH", 720, 760) THEN 20 ELSE 0)
                   - (IF Out("chlorine", 100, 300) THEN 20 ELSE 0)
                   - (IF Out("alkalinity", 80, 120) THEN 15 ELSE 0)
    IN  IF raw < 0 THEN 0 ELSE raw

Assessed == response.op = "weeklyAssessment" /\ response.status = 201

\* C13 as stated: every assessment submitted has the chemistry score 100
\* less the deductions, also one submitted without test results.
C13_Original ==
    Assessed =>
        response.aiAnalysis.chemistryScore =
            IF Len(request.body.testResults) = 1
            THEN Deducted(request.body.testResults[1])
            ELSE Deducted(<<>>)

\* C13: an assessment submitted with test results has the chemistry score
\* 100 less 20 for pH, 20 for chlorine and 15 for alkalinity out of band
\* ([7.2, 7.6], [1.0, 3.0], [80, 120]), floored at 0, a parameter that was
\* not tested counting as in band; one submitted without test results has
\* the chemistry score 50.
C13_ChemistryScore ==
    Assessed =>
        response.aiAnalysis.chemistryScore =
            IF Len(request.body.testResults) = 1
            THEN Deducted(request.body.testResults[1])
            ELSE 50

C13_Witness ==
    /\ Assessed
    /\ Len(request.body.testResults) = 1
    /\ DOMAIN request.body.testResults[1] = AnalysisFields
    /\ response.aiAnalysis.chemistryScore = 45

(***************************************************************************)
(* calculateTrend.                                                         *)
(***************************************************************************)
Trended == response.op = "calculateTrend"

\* The values of the parameter asked for, most recent first.
Carried ==
    LET at == {i \in DOMAIN request.readings :
                   request.parameter \in DOMAIN request.readings[i]}
        Nth(k) == CHOOSE i \in at : Cardinality({j \in at : j <= i}) = k
    IN  [k \in 1..Cardinality(at) |-> request.readings[Nth(k)][request.parameter]]

\* C14: calculateTrend returns insufficient_data exactly when fewer than 2
\* of the readings carry a value of the parameter, and otherwise one of
\* stable, increasing, decreasing.
C14_InsufficientIffUnderTwo ==
    Trended =>
        /\ response.trend = "insufficient_data" <=> Len(Carried) < 2
        /\ Len(Carried) >= 2 =>
               response.trend \in {"stable", "increasing", "decreasing"}

\* Two readings or more of which fewer than two carry the parameter, and
\* exactly two that do.
C14_Witness ==
    /\ Trended
    /\ Len(request.readings) = 3
    /\ Len(Carried) = 1
    /\ response.trend = "insufficient_data"
    /\ calculateTrend(SubSeq(request.readings, 1, 2), "chlorine") = "stable"

C16_MethodsLeavePoolAsLoaded ==
    response.op = "getRecommendations" =>
        /\ doc = waterChemistry
        /\ getRecommendations(doc) = response.recommendations
        /\ needsAttention(doc, now) = response.needsAttention

(***************************************************************************)
(* Maintenance logs: lifecycle and listing.                                *)
(***************************************************************************)
\* C17: a maintenance log that has reached status completed is frozen: no
\* PUT and no DELETE changes its status, its tasks or its issues, and a
\* DELETE of it is answered 400.
C17_CompletedLogFrozen ==
    [][maintenanceStatus = "completed" =>
          /\ maintenanceStatus' = "completed"
          /\ tasks' = tasks
          /\ issues' = issues
          /\ (response'.op = "deleteMaintenance" /\ request'.maintenanceId = "m1"
                 /\ ~(request'.user.role = "technician"
                        /\ request'.user._id # technician))
                => response'.status = 400]_vars

\* C18: the logs that GET /api/maintenance returns to a customer are logs of
\* pools that the customer owns, whatever filters the query carries.
C18_CustomerListsOwnPoolsOnly ==
    (response.op = "listMaintenance" /\ request.user.role = "customer") =>
        \A i \in DOMAIN response.docs :
            response.docs[i].pool = "p1" /\ owner = request.user._id

(***************************************************************************)
(* Access: canAccessPool and authorize.                                    *)
(***************************************************************************)
PoolRouteKinds ==
    {"postWaterChemistry", "getRecommendations", "postEquipment", "deletePool"}

\* C19: on a route behind canAccessPool a customer reaches the handler only
\* for a pool that customer owns: for a pool of another owner the answer is
\* 403, for a pool that does not exist 404, and in both cases the pool, its
\* water chemistry and its equipment stay as they were.
C19_CustomerOwnPoolOnly ==
    [][(/\ response = NoResponse
        /\ response' # NoResponse
        /\ request'.kind \in PoolRouteKinds
        /\ request'.user.role = "customer")
       => IF request'.poolId # "p1"
          THEN /\ response'.status = 404
               /\ UNCHANGED <<waterChemistry, equipment, isActive, owner>>
          ELSE IF owner # request'.user._id
          THEN /\ response'.status = 403
               /\ UNCHANGED <<waterChemistry, equipment, isActive, owner>>
          ELSE response'.status \in {200, 201}]_vars

\* A customer refused at another owner's pool that holds a reading and an
\* item of equipment.
C19_Witness ==
    /\ response.op = "postWaterChemistry"
    /\ response.status = 403
    /\ request.user.role = "customer"
    /\ request.poolId = "p1"
    /\ owner # request.user._id
    /\ Len(waterChemistry) > 0
    /\ Len(equipment) > 0

\* C20: a route guarded by authorize([...]) and documented as Admin only or
\* Admin/Consultant only passes a user on to its handler exactly when the
\* user's role is one of the roles listed, and answers every other role 403.
C20_ListedRolesReachHandler ==
    (response.op = "authorize") =>
        \A guarded \in GuardedRoutes :
            (guarded.route = request.route /\ guarded.listed) =>
                /\ response.next <=> request.user.role \in guarded.access
                /\ ~response.next => response.status = 403

(***************************************************************************)
(* Agreement of the pool methods, equal means, and a customer's update.    *)
(***************************************************************************)
\* C28: needsAttention and getRecommendations use the same bands: when the
\* latest reading is at most 7 days old, needsAttention is true iff
\* getRecommendations is not empty; and in every state of the pool a
\* recommendation implies that attention is needed.
C28_AttentionAgreesWithRecommendations ==
    response.op = "getRecommendations" =>
        /\ Len(response.recommendations) > 0 => response.needsAttention
        /\ (\E i \in Newest(waterChemistry) :
                now - waterChemistry[i].testedAt <= SevenDays)
             => (response.needsAttention <=> Len(response.recommendations) > 0)

\* A latest reading with alkalinity at 121, exactly 7 days old: attention
\* needed, and recommended what to do.
C28_Witness ==
    /\ response.op = "getRecommendations"
    /\ Len(waterChemistry) > 0
    /\ \E i \in Newest(waterChemistry) :
           /\ now - waterChemistry[i].testedAt = SevenDays
           /\ waterChemistry[i].alkalinity = 121
    /\ response.needsAttention
    /\ Len(response.recommendations) = 1

\* C29: a series of 2 or more values whose recent-half mean equals its
\* older-half mean, all values 0 included, has the trend stable.
C29_EqualMeansStable ==
    (Trended /\ Len(Carried) >= 2) =>
        LET n == Len(Carried)
            k == (n + 1) \div 2
        IN  Sum(SubSeq(Carried, 1, k)) * (n - k) = Sum(SubSeq(Carried, k + 1, n)) * k
                => response.trend = "stable"

\* C30: a PUT of a customer on a maintenance log is refused with 403 when its
\* body names a field other than customerFeedback, and then neither the log
\* nor the pool's water chemistry changes; a PUT of a customer that is
\* accepted changes the customerFeedback alone, and of a log whose pool the
\* customer owns.
C30_CustomerUpdatesOwnFeedbackOnly ==
    [][(/\ response = NoResponse
        /\ response' # NoResponse
        /\ request'.kind = "putMaintenance"
        /\ request'.maintenanceId = "m1"
        /\ request'.user.role = "customer")
       => IF ~(DOMAIN request'.body \subseteq {"customerFeedback"})
          THEN /\ response'.status = 403
               /\ UNCHANGED <<logVars, maintenanceStatus, technician, waterChemistry>>
          ELSE /\ UNCHANGED <<tasks, issues, maintenanceStatus, technician, waterChemistry>>
               /\ customerFeedback' # customerFeedback => owner = request'.user._id]_vars

(***************************************************************************)
(* Dispatch of the public routes.                                          *)
(***************************************************************************)
\* C21: GET /api/affiliates/packages and GET /api/affiliates/marketplace
\* without access token are taken by the packages and the marketplace
\* handler and answered 200, not 401; GET /api/maintenance/analytics is
\* taken by the analytics handler, not by the handler of a single log.
C21_PublicRoutesDispatched ==
    response.op = "dispatch" =>
        /\ (request.router = "affiliates" /\ request.token = <<>>
              /\ request.path = <<"packages">>)
             => (response.handler = "GET /packages" /\ response.status = 200)
        /\ (request.router = "affiliates" /\ request.token = <<>>
              /\ request.path = <<"marketplace">>)
             => (response.handler = "GET /marketplace" /\ response.status = 200)
        /\ (request.router = "maintenance" /\ request.path = <<"analytics">>)
             => response.handler = "GET /analytics"

(***************************************************************************)
(* Account lock.                                                           *)
(***************************************************************************)
\* C22: the step that records the 5th failed password attempt (or a later
\* one) leaves the account locked, whatever other login requests are in
\* flight; while the account is locked, a login that is answered is answered
\* 423, also with the correct password, and loginAttempts does not change.
C22_LockedAtFifthFailure ==
    [][/\ (account'.loginAttempts # account.loginAttempts
             /\ account'.loginAttempts >= MaxLoginAttempts)
          => isLocked(account', now)
       /\ isLocked(account, now) =>
            /\ account'.loginAttempts = account.loginAttempts
            /\ (response = NoResponse /\ response'.op = "login")
                 => response'.status = 423]_vars

(***************************************************************************)
(* Premium subscriptions and ebooks.                                       *)
(***************************************************************************)
\* C24: the client never has more than one active subscription, whatever
\* subscribe requests are in flight; a valid subscribe request that arrives
\* while an active subscription exists is answered 409 and creates nothing.
ActiveSubscriptions == {i \in DOMAIN subscriptions : subscriptions[i] = "active"}

C24_OneActiveSubscription ==
    /\ [](Cardinality(ActiveSubscriptions) <= 1)
    /\ [][(/\ HasActiveSubscription
           /\ response = NoResponse
           /\ response'.op = "subscribe"
           /\ request'.valid
           /\ inflight' = inflight)
          => (response'.status = 409 /\ subscriptions' = subscriptions)]_vars

\* C23: with a finite usage limit of the Ebook feature, the usage count and
\* the number of ebooks of the client never pass the limit, whatever ebook
\* requests are in flight; a request that arrives when the usage count has
\* reached the limit is answered 403 and creates no ebook.
C23_EbooksWithinUsageLimit ==
    /\ [](ebookFeature.usageLimit # -1 =>
            /\ ebookFeature.usageCount <= ebookFeature.usageLimit
            /\ Len(ebooks) <= ebookFeature.usageLimit)
    /\ [][(/\ ebookFeature.usageLimit # -1
           /\ ebookFeature.usageCount >= ebookFeature.usageLimit
           /\ response = NoResponse
           /\ response'.op = "ebookRequest"
           /\ inflight' = inflight)
          => (response'.status = 403 /\ ebooks' = ebooks)]_vars

\* Every ebook for which generateCustomEbook was called reaches completed or
\* error.
EbookEventuallySettled ==
    \A i \in 1..MaxEbooks :
        (i \in DOMAIN ebooks /\ ebooks[i].job # "none")
            ~> (i \in DOMAIN ebooks /\ ebooks[i].status \in {"completed", "error"})

\* The generation status moves from queued to generating and from
\* generating to completed or error, and in no other way.
EbookStatusOrder ==
    [][\A i \in DOMAIN ebooks :
          ebooks'[i].status # ebooks[i].status =>
              <<ebooks[i].status, ebooks'[i].status>> \in
                  {<<"queued", "generating">>, <<"generating", "completed">>,
                   <<"generating", "error">>}]_vars

DeliveryUrlOnlyCompleted ==
    \A i \in DOMAIN ebooks : ebooks[i].deliveryUrl => ebooks[i].status = "completed"

\* A download is granted on a completed ebook whose stored download count is
\* under the allowed number.
DownloadWithinLimit ==
    [][(response = NoResponse /\ response'.op = "download" /\ response'.status = 200)
          => /\ ebooks[request'.ebookId].status = "completed"
             /\ ebooks[request'.ebookId].downloadCount < AllowedDownloads]_vars

\* C26: every ebook of an accepted request eventually is completed or in
\* error; its status only moves queued -> generating -> completed or error;
\* deliveryUrl is set only in status completed; a download is granted only
\* in status completed and only while downloadCount < allowedDownloads.
C26_EbookLifecycle ==
    /\ EbookEventuallySettled
    /\ EbookStatusOrder
    /\ []DeliveryUrlOnlyCompleted
    /\ DownloadWithinLimit

(***************************************************************************)
(* Password reset.                                                         *)
(***************************************************************************)
\* C25: the stored password changes only in the answer to a reset request
\* whose token is the stored, unexpired reset token, that is a token not yet
\* used, not older than one hour and not replaced by a newer one; any other
\* reset request is answered 400 and leaves the password as it is.
C25_ResetTokenSingleUse ==
    [][/\ account'.password # account.password
            => /\ response'.op = "resetPassword"
               /\ ResetMatches(account, request'.token, now)
       /\ (/\ response = NoResponse
           /\ response'.op = "resetPassword"
           /\ ~ResetMatches(account, request'.token, now))
            => /\ response'.status = 400
               /\ account'.password = account.password]_vars

====
